---- MODULE Spec2Model ----
(***************************************************************************)
(* Certificate import validation and batch generation of the E-Cell        *)
(* certificate system.                                                     *)
(*                                                                         *)
(*   - src/lib/importValidation.ts : validateImportRows / validateRow      *)
(*   - src/unnamed/part_010        : POST /api/admin/certificates/generate *)
(*                                   POST /api/admin/certificates          *)
(*   - src/models/Event.ts         : Certificate schema (unique number)    *)
(*   - src/app/api/admin/certificates/export/route.ts : DELETE certificate *)
(*                                                                         *)
(* JavaScript strings are TLA+ strings; a character is a string of length  *)
(* one, read with SubSeq.  A JavaScript value that may be undefined is a   *)
(* record [def, val].                                                      *)
(***************************************************************************)
EXTENDS Integers, Sequences, FiniteSets, TLC

(***************************************************************************)
(* String primitives (String.prototype.trim / toUpperCase / toLowerCase,   *)
(* the regular expression classes \s and \d).                              *)
(***************************************************************************)
Char(s, i) == SubSeq(s, i, i)

IsSpace(c) == c \in {" ", "\t"}

IsDigit(c) == c \in {"0", "1", "2", "3", "4", "5", "6", "7", "8", "9"}

DigitVal(c) ==
    CASE c = "0" -> 0 [] c = "1" -> 1 [] c = "2" -> 2 [] c = "3" -> 3 [] c = "4" -> 4
      [] c = "5" -> 5 [] c = "6" -> 6 [] c = "7" -> 7 [] c = "8" -> 8 [] c = "9" -> 9

UpperChar(c) ==
    CASE c = "a" -> "A" [] c = "b" -> "B" [] c = "c" -> "C" [] c = "d" -> "D"
      [] c = "e" -> "E" [] c = "f" -> "F" [] c = "g" -> "G" [] c = "h" -> "H"
      [] c = "i" -> "I" [] c = "j" -> "J" [] c = "k" -> "K" [] c = "l" -> "L"
      [] c = "m" -> "M" [] c = "n" -> "N" [] c = "o" -> "O" [] c = "p" -> "P"
      [] c = "q" -> "Q" [] c = "r" -> "R" [] c = "s" -> "S" [] c = "t" -> "T"
      [] c = "u" -> "U" [] c = "v" -> "V" [] c = "w" -> "W" [] c = "x" -> "X"
      [] c = "y" -> "Y" [] c = "z" -> "Z"
      [] OTHER -> c

LowerChar(c) ==
    CASE c = "A" -> "a" [] c = "B" -> "b" [] c = "C" -> "c" [] c = "D" -> "d"
      [] c = "E" -> "e" [] c = "F" -> "f" [] c = "G" -> "g" [] c = "H" -> "h"
      [] c = "I" -> "i" [] c = "J" -> "j" [] c = "K" -> "k" [] c = "L" -> "l"
      [] c = "M" -> "m" [] c = "N" -> "n" [] c = "O" -> "o" [] c = "P" -> "p"
      [] c = "Q" -> "q" [] c = "R" -> "r" [] c = "S" -> "s" [] c = "T" -> "t"
      [] c = "U" -> "u" [] c = "V" -> "v" [] c = "W" -> "w" [] c = "X" -> "x"
      [] c = "Y" -> "y" [] c = "Z" -> "z"
      [] OTHER -> c

RECURSIVE MapChars(_, _)
MapChars(s, upper) ==
    IF Len(s) = 0 THEN ""
    ELSE (IF upper THEN UpperChar(Char(s, 1)) ELSE LowerChar(Char(s, 1)))
         \o MapChars(SubSeq(s, 2, Len(s)), upper)

ToUpperCase(s) == MapChars(s, TRUE)

ToLowerCase(s) == MapChars(s, FALSE)

RECURSIVE TrimStart(_)
TrimStart(s) ==
    IF Len(s) > 0 /\ IsSpace(Char(s, 1)) THEN TrimStart(SubSeq(s, 2, Len(s))) ELSE s

RECURSIVE TrimEnd(_)
TrimEnd(s) ==
    IF Len(s) > 0 /\ IsSpace(Char(s, Len(s))) THEN TrimEnd(SubSeq(s, 1, Len(s) - 1)) ELSE s

Trim(s) == TrimEnd(TrimStart(s))

\* s.replace(/\s+/g, '')
RECURSIVE StripSpaces(_)
StripSpaces(s) ==
    IF Len(s) = 0 THEN ""
    ELSE (IF IsSpace(Char(s, 1)) THEN "" ELSE Char(s, 1)) \o StripSpaces(SubSeq(s, 2, Len(s)))

\* A JavaScript value that may be undefined.
Undefined == [def |-> FALSE, val |-> ""]

Str(s) == [def |-> TRUE, val |-> s]

\* row[idx] for a 0-based idx that may itself be undefined (-1 here).
ElementAt(row, idx) ==
    IF idx >= 0 /\ idx < Len(row) THEN Str(row[idx + 1]) ELSE Undefined

(***************************************************************************)
(* src/lib/importValidation.ts                                             *)
(***************************************************************************)
FieldKeys ==
    <<"participantName", "participantEmail", "eventName",
      "eventStartDate", "eventEndDate", "certificateNumber">>

COLUMNS ==
    [participantName   |-> <<"participantname", "participant name", "name">>,
     participantEmail  |-> <<"participantemail", "participant email", "email">>,
     eventName         |-> <<"eventname", "event name", "event">>,
     eventStartDate    |-> <<"eventstartdate", "event start date", "start date", "startdate">>,
     eventEndDate      |-> <<"eventenddate", "event end date", "end date", "enddate">>,
     certificateNumber |-> <<"certificatenumber", "certificate number">>]

normalizeHeader(h) == StripSpaces(ToLowerCase(Trim(h)))

\* aliases.map((a) => a.toLowerCase().replace(/\s+/g, ''))
RECURSIVE normAliases(_)
normAliases(aliases) ==
    IF Len(aliases) = 0 THEN {}
    ELSE {StripSpaces(ToLowerCase(Head(aliases)))} \cup normAliases(Tail(aliases))

\* headers.map(normalizeHeader)
RECURSIVE MapNormalizeHeader(_)
MapNormalizeHeader(headers) ==
    IF Len(headers) = 0 THEN <<>>
    ELSE <<normalizeHeader(Head(headers))>> \o MapNormalizeHeader(Tail(headers))

\* The inner loop of findColumnKey: the 0-based index of the first header
\* that is an alias of key, -1 when the key gets no entry in the map.  (The
\* singleton sets bind normAliases and normalized to their values, as the
\* const declarations of the source do.)
FirstMatch(normalized, key) ==
    LET Find(normAl) ==
            LET hits == { h \in 1..Len(normalized) : normalized[h] \in normAl }
            IN  IF hits = {} THEN -1
                ELSE (CHOOSE h \in hits : \A j \in hits : h <= j) - 1
    IN  CHOOSE r \in { Find(normAl) : normAl \in {normAliases(COLUMNS[key])} } : TRUE

findColumnKey(headers) ==
    LET Build(normalized) ==
            [participantName   |-> FirstMatch(normalized, "participantName"),
             participantEmail  |-> FirstMatch(normalized, "participantEmail"),
             eventName         |-> FirstMatch(normalized, "eventName"),
             eventStartDate    |-> FirstMatch(normalized, "eventStartDate"),
             eventEndDate      |-> FirstMatch(normalized, "eventEndDate"),
             certificateNumber |-> FirstMatch(normalized, "certificateNumber")]
    IN  CHOOSE r \in { Build(normalized) : normalized \in {MapNormalizeHeader(headers)} } : TRUE

\* Cells are strings or undefined (the row is shorter than the column).
parseCell(value) == IF ~value.def THEN "" ELSE Trim(value.val)

\* /^[^\s@]+@[^\s@]+\.[^\s@]+$/ on the trimmed string; empty is accepted.
isValidEmail(s) ==
    LET t == Trim(s)
    IN  \/ Len(t) = 0
        \/ \E i \in 2..Len(t) : \E j \in (i + 2)..(Len(t) - 1) :
              /\ Char(t, i) = "@"
              /\ Char(t, j) = "."
              /\ \A k \in 1..Len(t) :
                    /\ ~IsSpace(Char(t, k))
                    /\ (k # i => Char(t, k) # "@")

\* /^(\d{2})-(\d{2})-(\d{4})$/
IsDDMMYYYY(t) ==
    /\ Len(t) = 10
    /\ \A k \in {1, 2, 4, 5, 7, 8, 9, 10} : IsDigit(Char(t, k))
    /\ Char(t, 3) = "-"
    /\ Char(t, 6) = "-"

parseFlexibleDate(s) ==
    IF Len(Trim(s)) = 0 THEN ""
    ELSE LET t == Trim(s)
         IN  IF IsDDMMYYYY(t)
             THEN SubSeq(t, 7, 10) \o "-" \o SubSeq(t, 4, 5) \o "-" \o SubSeq(t, 1, 2)
             ELSE t

\* !Number.isNaN(new Date(s).getTime()) for the strings of the model: a
\* date-only ISO string YYYY-MM-DD parses when its month is 01..12 and its
\* day is 01..31; the other strings the model feeds in do not parse.
DateParses(s) ==
    /\ Len(s) = 10
    /\ \A k \in {1, 2, 3, 4, 6, 7, 9, 10} : IsDigit(Char(s, k))
    /\ Char(s, 5) = "-"
    /\ Char(s, 8) = "-"
    /\ LET month == 10 * DigitVal(Char(s, 6)) + DigitVal(Char(s, 7))
           day   == 10 * DigitVal(Char(s, 9)) + DigitVal(Char(s, 10))
       IN  month \in 1..12 /\ day \in 1..31

isValidDateStr(s) ==
    IF Len(Trim(s)) = 0 THEN FALSE ELSE DateParses(parseFlexibleDate(s))

formatCertNumber(s) == ToUpperCase(Trim(s))

\* The keys of an ImportRowData: the optional ones only when non-empty.
DataKeys(participantEmail, certificateNumber) ==
    {"participantName", "eventName", "eventStartDate", "eventEndDate"}
        \cup (IF participantEmail # "" THEN {"participantEmail"} ELSE {})
        \cup (IF certificateNumber # "" THEN {"certificateNumber"} ELSE {})

\* The mutation of DateErrors that only checks the format.
DateErrors_FormatOnly(field, value) ==
    IF value # "" /\ ~isValidDateStr(value)
    THEN <<field \o " must be a valid date">> ELSE <<>>

\* if (!v) errors.push('<field> is required');
\* else if (!isValidDateStr(v)) errors.push('<field> must be a valid date');
DateErrors(field, value) ==
    IF value = "" THEN <<field \o " is required">>
    ELSE IF ~isValidDateStr(value) THEN <<field \o " must be a valid date">> ELSE <<>>

\* The mutation of isValidOf that accepts every row.
isValidOf_Always(errors) == TRUE

\* const isValid = errors.length === 0;
isValidOf(errors) == Len(errors) = 0

validateRow(row, index, columnMap, existingCertNumbers) ==
    LET get(key) == parseCell(ElementAt(row, columnMap[key]))
        participantName   == get("participantName")
        participantEmail  == get("participantEmail")
        eventName         == get("eventName")
        eventStartDate    == get("eventStartDate")
        eventEndDate      == get("eventEndDate")
        certificateNumber == get("certificateNumber")
        errors ==
            (IF participantName = "" THEN <<"participantName is required">> ELSE <<>>)
            \o (IF eventName = "" THEN <<"eventName is required">> ELSE <<>>)
            \o DateErrors("eventStartDate", eventStartDate)
            \o DateErrors("eventEndDate", eventEndDate)
            \o (IF participantEmail # "" /\ ~isValidEmail(participantEmail)
                THEN <<"participantEmail must be a valid email">> ELSE <<>>)
            \o (IF certificateNumber # ""
                   /\ formatCertNumber(certificateNumber) \in existingCertNumbers
                THEN <<"certificateNumber must be unique">> ELSE <<>>)
        data ==
            [k \in DataKeys(participantEmail, certificateNumber) |->
                CASE k = "participantName"   -> participantName
                  [] k = "eventName"         -> eventName
                  [] k = "eventStartDate"    -> eventStartDate
                  [] k = "eventEndDate"      -> eventEndDate
                  [] k = "participantEmail"  -> participantEmail
                  [] k = "certificateNumber" -> formatCertNumber(certificateNumber)]
    IN  [index |-> index, data |-> data, isValid |-> isValidOf(errors), errors |-> errors]

\* The body of the loop of validateImportRows for the row at 0-based
\* position i: the result pushed and the set of seen numbers afterwards.
\* The mutation of DuplicateInFileResult that numbers the row by its
\* 0-based position.
DuplicateInFileResult_ZeroBased(row, i, columnMap) ==
    [index   |-> i,
     data    |-> [participantName |-> parseCell(ElementAt(row, columnMap.participantName)),
                  eventName       |-> parseCell(ElementAt(row, columnMap.eventName)),
                  eventStartDate  |-> parseCell(ElementAt(row, columnMap.eventStartDate)),
                  eventEndDate    |-> parseCell(ElementAt(row, columnMap.eventEndDate))],
     isValid |-> FALSE,
     errors  |-> <<"certificateNumber must be unique within file">>]

DuplicateInFileResult(row, i, columnMap) ==
    [index   |-> i + 1,
     data    |-> [participantName |-> parseCell(ElementAt(row, columnMap.participantName)),
                  eventName       |-> parseCell(ElementAt(row, columnMap.eventName)),
                  eventStartDate  |-> parseCell(ElementAt(row, columnMap.eventStartDate)),
                  eventEndDate    |-> parseCell(ElementAt(row, columnMap.eventEndDate))],
     isValid |-> FALSE,
     errors  |-> <<"certificateNumber must be unique within file">>]

LoopCertNum(row, columnMap) ==
    IF columnMap.certificateNumber # -1
    THEN parseCell(ElementAt(row, columnMap.certificateNumber))
    ELSE ""

\* The mutation of IsDuplicateInFile that looks the number up as written.
IsDuplicateInFile_CaseSensitive(row, columnMap, seen) ==
    /\ LoopCertNum(row, columnMap) # ""
    /\ LoopCertNum(row, columnMap) \in seen

IsDuplicateInFile(row, columnMap, seen) ==
    /\ LoopCertNum(row, columnMap) # ""
    /\ formatCertNumber(LoopCertNum(row, columnMap)) \in seen

SeenAfter(row, columnMap, seen) ==
    IF LoopCertNum(row, columnMap) # ""
    THEN seen \cup {formatCertNumber(LoopCertNum(row, columnMap))}
    ELSE seen

ValidatedResult(row, i, columnMap, seen) ==
    validateRow(row, i + 1, columnMap, SeenAfter(row, columnMap, seen))

(***************************************************************************)
(* Inputs of the validator.                                                *)
(***************************************************************************)
MaxDataRows == 2

HeaderRows ==
    { <<"Name", "Email", "Event", "Start Date", "End Date", "Certificate Number">>,
      <<"Name", "Email", "Event", "Start Date", "End Date">>,
      <<"Email", "eventName", " participant NAME", "startdate", "EndDate",
        "certificate  number", "Name">> }

\* Data rows in the column order of the first header row.
NameCells == {"", " Ann "}

CertCells == {"", "ecell-2025-aaaaa", "ECELL-2025-AAAAA"}

\* email, event, start date, end date
RestCells ==
    { <<"", "Bootcamp", "10-04-2026", "2026-04-12">>,
      <<"ann.ecell", "", "2026-13-10", "">> }

DataRows ==
    { <<n, r[1], r[2], r[3], r[4], c>> : n \in NameCells, r \in RestCells, c \in CertCells }
        \cup { <<"Bob", "bob@ecell.in", "Bootcamp", "", "soon", " ECELL-2025-bbbbb ">>,
               <<"Bob", "b ob@ecell.in", "Bootcamp", "2026-04-10", "12-04-2026">>,
               <<"Bob">> }

RECURSIVE TablesOf(_)
TablesOf(n) ==
    IF n = 0 THEN { <<>> }
    ELSE { Append(t, r) : t \in TablesOf(n - 1), r \in DataRows }

InputTables ==
    { <<>> } \cup { <<h>> \o t : h \in HeaderRows, t \in UNION { TablesOf(n) : n \in 0..MaxDataRows } }

ExistingSets == { {}, {"ECELL-2025-AAAAA", "ECELL-2025-CCCCC"} }

(***************************************************************************)
(* src/unnamed/part_007 (certificateUtils), src/lib/templateUtils.ts       *)
(* (cloudinary), src/models/Event.ts (Certificate schema)                  *)
(***************************************************************************)
\* `ECELL-${year}-${randomChars}`
generateCertificateNumber(year, randomChars) == "ECELL-" \o year \o "-" \o randomChars

\* [A-Z0-9]
IsUpperAlnum(c) == IsDigit(c) \/ (c # LowerChar(c))

\* /^ECELL-\d{4}-[A-Z0-9]{5}$/.test(certificateNumber)
isValidCertificateNumber(certificateNumber) ==
    /\ Len(certificateNumber) = 16
    /\ SubSeq(certificateNumber, 1, 6) = "ECELL-"
    /\ \A k \in 7..10 : IsDigit(Char(certificateNumber, k))
    /\ Char(certificateNumber, 11) = "-"
    /\ \A k \in 12..16 : IsUpperAlnum(Char(certificateNumber, k))

\* folder 'certificates', public_id `${certificateNumber}.pdf`
PublicIdOf(certificateNumber) == "certificates/" \o certificateNumber \o ".pdf"

\* result.secure_url of the upload
SecureUrlOf(publicId) == "https://res.cloudinary.com/raw/upload/" \o publicId

\* An Event document.
EventDoc(id, title) == [id |-> id, title |-> title]

\* The document Certificate.create stores: certificateNumber is trimmed and
\* upper-cased and participantName trimmed by the schema setters.
CertificateDoc(id, certificateNumber, participantName, eventId, publicId, issuedAt) ==
    [id                 |-> id,
     certificateNumber  |-> ToUpperCase(Trim(certificateNumber)),
     participantName    |-> Trim(participantName),
     eventId            |-> eventId,
     certificateUrl     |-> SecureUrlOf(publicId),
     cloudinaryPublicId |-> publicId,
     issuedAt           |-> issuedAt]

\* The mutation of ViolatesUniqueIndex for a schema without unique: true.
ViolatesUniqueIndex_NoIndex(store, doc) == FALSE

\* The unique index on certificateNumber rejects the insert (E11000).
ViolatesUniqueIndex(store, doc) ==
    \E other \in store : other.certificateNumber = doc.certificateNumber

\* required: [true, 'Participant name is required']
FailsValidation(doc) == doc.participantName = ""

\* The mutation of findOne that never finds a record.
findOne_NeverFinds(store, certificateNumber) == FALSE

\* Certificate.findOne({ certificateNumber })
findOne(store, certificateNumber) ==
    \E doc \in store : doc.certificateNumber = certificateNumber

(***************************************************************************)
(* src/unnamed/part_010: POST /api/admin/certificates/generate             *)
(***************************************************************************)
MAX_ROWS_PER_REQUEST == 20

maxAttempts == 10

\* The mutation of ExceedsCap that lets one more row through.
ExceedsCap_OffByOne(validRows) == Len(validRows) > MAX_ROWS_PER_REQUEST + 1

\* validRows.length > MAX_ROWS_PER_REQUEST
ExceedsCap(validRows) == Len(validRows) > MAX_ROWS_PER_REQUEST

\* The mutation of findById that resolves every id.
findById_AlwaysFound(store, id) == TRUE

\* Event.findById(eventId)
findById(store, id) == \E e \in store : e.id = id

\* JSON values of a request body: a string, a number, or absent.
JStr(s) == [t |-> "str", s |-> s]

JNum == [t |-> "num", s |-> ""]

JUndef == [t |-> "undef", s |-> ""]

\* JavaScript truthiness (the numbers of the model are non-zero).
Truthy(v) == v.t = "num" \/ (v.t = "str" /\ v.s # "")

ImportRow(isValid, participantName, eventName, certificateNumber) ==
    [isValid |-> isValid,
     data    |-> [participantName   |-> participantName,
                  participantEmail  |-> JUndef,
                  eventName         |-> eventName,
                  certificateNumber |-> certificateNumber]]

\* The mutation of PassesFilter that trusts the flag alone.
PassesFilter_TrustsFlag(r) == r.isValid

\* r.isValid && r.data?.participantName && r.data?.eventName
PassesFilter(r) ==
    r.isValid /\ Truthy(r.data.participantName) /\ Truthy(r.data.eventName)

\* rows.filter(...)
RECURSIVE Filter(_)
Filter(rs) ==
    IF Len(rs) = 0 THEN <<>>
    ELSE (IF PassesFilter(Head(rs)) THEN <<Head(rs)>> ELSE <<>>) \o Filter(Tail(rs))

\* The three statements at the head of the loop body, outside the try block:
\* calling trim on a value that is not a string raises a TypeError.
RowHeadThrows(data) ==
    \/ data.participantName.t = "num"
    \/ data.participantEmail.t = "num"
    \/ data.certificateNumber.t = "num"

RowParticipantName(data) ==
    IF data.participantName.t = "str" THEN Trim(data.participantName.s) ELSE ""

RowCertificateNumber(data) ==
    IF Truthy(data.certificateNumber) THEN ToUpperCase(Trim(data.certificateNumber.s)) ELSE ""

\* The messages of the row errors.
ExistsMessage(participantName, certificateNumber) ==
    "Row \"" \o participantName \o "\": certificate " \o certificateNumber
        \o " already exists; skipped."

NoUniqueMessage(participantName) ==
    "Row \"" \o participantName \o "\": could not generate unique certificate number."

CaughtMessage(participantName, msg) == "Row \"" \o participantName \o "\": " \o msg

\* Responses.
ErrorResponse(status, error) ==
    [status |-> status, success |-> FALSE, valid |-> FALSE, error |-> error,
     generated |-> 0, failed |-> 0, errors |-> <<>>]

SuccessResponse(generated, failed, errors) ==
    [status |-> 200, success |-> TRUE, valid |-> FALSE, error |-> "",
     generated |-> generated, failed |-> failed, errors |-> errors]

NoResponse == [status |-> 0, success |-> FALSE, valid |-> FALSE, error |-> "",
               generated |-> 0, failed |-> 0, errors |-> <<>>]

\* The state of one request being handled.  checks, renders, uploads, inserts,
\* raised and skipped record what the call has done so far (history only).
IdleCall ==
    [op |-> "none", pc |-> "idle", authed |-> TRUE, eventId |-> "", title |-> "",
     ids |-> <<>>, table |-> <<>>, deleted |-> 0, rows |-> <<>>, validRows |-> <<>>,
     nrows |-> 0,
     idx |-> 0, generated |-> 0, failed |-> 0, errors |-> <<>>,
     participantName |-> "", certificateNumber |-> "", isUnique |-> FALSE, attempts |-> 0,
     target |-> <<>>, publicId |-> "", response |-> NoResponse,
     checks |-> 0, renders |-> 0, uploads |-> 0, inserts |-> 0,
     raised |-> 0, skipped |-> 0, lastRaise |-> ""]

\* The mutation of RowCatch that runs the row again.
RowCatch_Retries(k, msg, step) ==
    [k EXCEPT !.errors = k.errors \o <<CaughtMessage(k.participantName, msg),
                                        CaughtMessage(k.participantName, msg)>>,
              !.failed = k.failed + 1 + 1,
              !.pc = "row",
              !.raised = k.raised + 1,
              !.lastRaise = step]

\* The catch block of the row loop (lines 142-149).
RowCatch(k, msg, step) ==
    [k EXCEPT !.errors = k.errors \o <<CaughtMessage(k.participantName, msg),
                                        CaughtMessage(k.participantName, msg)>>,
              !.failed = k.failed + 1 + 1,
              !.idx = k.idx + 1,
              !.pc = "row",
              !.raised = k.raised + 1,
              !.lastRaise = step]

\* The mutation of RowSkip that counts the row twice.
RowSkip_CountsTwice(k, message) ==
    [k EXCEPT !.errors = Append(k.errors, message),
              !.failed = k.failed + 1 + 1,
              !.idx = k.idx + 1,
              !.pc = "row",
              !.skipped = k.skipped + 1]

\* A row failure recorded inside the try block, followed by continue.
RowSkip(k, message) ==
    [k EXCEPT !.errors = Append(k.errors, message),
              !.failed = k.failed + 1,
              !.idx = k.idx + 1,
              !.pc = "row",
              !.skipped = k.skipped + 1]

\* The outer catch: any other error answers 500.
OuterCatch(k) ==
    [k EXCEPT !.pc = "done", !.response = ErrorResponse(500, "Generate failed")]

Respond(k, response) == [k EXCEPT !.pc = "done", !.response = response]

(***************************************************************************)
(* Inputs of the generate route.                                           *)
(***************************************************************************)
MaxCalls == 2

MaxFaults == 1

MaxBatchRows == 3

Calls == 1..MaxCalls

\* The slot of the public visitor's request.
Visitor == MaxCalls + 1

Slots == Calls \cup {Visitor}

CurrentYear == "2026"

RandomChars == {"AAAAA", "KD93Q"}

InitialEvents == { EventDoc("ev1", "Bootcamp") }

\* The values new Date() takes.
MaxInstant == 2

Instants == 1..MaxInstant

RowGenerated == ImportRow(TRUE, JStr("Asha"), JStr("Bootcamp"), JUndef)

RowSupplied == ImportRow(TRUE, JStr(" Ravi "), JStr("Bootcamp"), JStr(" ecell-2026-aaaaa"))

RowInvalid == ImportRow(FALSE, JStr("Zed"), JStr("Bootcamp"), JUndef)

RowNoEvent == ImportRow(TRUE, JStr("Nox"), JUndef, JUndef)

RowNumericNumber == ImportRow(TRUE, JStr("Mina"), JStr("Bootcamp"), JNum)

RowBlankName == ImportRow(TRUE, JStr(" "), JStr("Bootcamp"), JUndef)

RowOddNumber == ImportRow(TRUE, JStr("Omar"), JStr("Bootcamp"), JStr("cert-7"))

RowEmptyName == ImportRow(TRUE, JStr(""), JStr("Bootcamp"), JUndef)

BatchRowPool ==
    {RowGenerated, RowSupplied, RowInvalid, RowNoEvent, RowNumericNumber, RowBlankName,
     RowOddNumber, RowEmptyName}

RECURSIVE SeqsOf(_, _)
SeqsOf(S, n) ==
    IF n = 0 THEN { <<>> }
    ELSE { Append(t, r) : t \in SeqsOf(S, n - 1), r \in S }

UpTo(S, n) == UNION { SeqsOf(S, k) : k \in 0..n }

\* n copies of row r.
Repeat(r, n) == [k \in 1..n |-> r]

\* Bodies at and just over the cap, with and without a row the filter drops.
LongRows ==
    { pre \o Repeat(RowSupplied, n) :
        pre \in { <<>>, <<RowInvalid>> },
        n \in {MAX_ROWS_PER_REQUEST, MAX_ROWS_PER_REQUEST + 1} }

Request(authed, jsonOk, eventId, rowsIsArray, rs) ==
    [authed |-> authed, jsonOk |-> jsonOk, eventId |-> eventId,
     rowsIsArray |-> rowsIsArray, rows |-> rs]

MalformedRequests ==
    { Request(FALSE, TRUE, "ev1", TRUE, <<RowGenerated>>),
      Request(TRUE, FALSE, "", FALSE, <<>>),
      Request(TRUE, TRUE, "", TRUE, <<RowGenerated>>),
      Request(TRUE, TRUE, "ev1", FALSE, <<>>) }

BatchRequests ==
    { Request(TRUE, TRUE, e, TRUE, rs) :
        e \in {"ev1", "ev404"}, rs \in UpTo(BatchRowPool, MaxBatchRows) \cup LongRows }
      \cup MalformedRequests

(***************************************************************************)
(* State                                                                   *)
(***************************************************************************)
VARIABLES
    rows,                 \* validateImportRows: the table passed in
    existingCertNumbers,  \* validateImportRows: the caller's set
    vpc,                  \* validateImportRows: "call", "loop", "done"
    i,                    \* validateImportRows: loop variable
    columnMap,
    seenCerts,
    results,
    events,               \* the ids of the Event documents
    certificates,         \* the Certificate collection
    storage,              \* the public ids of the PDFs in cloud storage
    cloudinaryConfigured, \* isCloudinaryConfigured()
    call,                 \* the requests being handled, by call slot
    faults,               \* external failures injected so far
    showImportModal,      \* certificates page: the modal is open
    modal,                \* ImportCertificatesModal: its React state
    gen,                  \* handleGenerate: its locals and toasts
    numberCall            \* generateCertificateNumber: its locals and result

validatorVars == <<rows, existingCertNumbers, vpc, i, columnMap, seenCerts, results>>

serverVars == <<events, certificates, storage, cloudinaryConfigured, call, faults>>

clientVars == <<showImportModal, modal, gen>>

utilVars == <<numberCall>>

vars == <<validatorVars, serverVars, clientVars, utilVars>>

(***************************************************************************)
(* src/unnamed/part_000: ImportCertificatesModal                           *)
(***************************************************************************)
MAX_GENERATE_PER_REQUEST == 5

MaxPreviewRows == 11

PreviewRow(index, isValid) ==
    [index |-> index, data |-> [participantName |-> "P" \o ToString(index)], isValid |-> isValid]

\* The rows of an import response: n data rows, numbered from 2, the rows
\* whose index is in invalid not valid.
PreviewRowsOf(n, invalid) == [k \in 1..n |-> PreviewRow(k + 1, (k + 1) \notin invalid)]

ImportResponses ==
    { [ok |-> FALSE, rows |-> <<>>] }
        \cup { [ok |-> TRUE, rows |-> PreviewRowsOf(n, invalid)] :
                 n \in {2, MaxPreviewRows}, invalid \in { {}, {3} } }

\* What the generate route can answer for a chunk of n rows: g rows
\* generated, sk rows skipped and r rows caught (counted twice, see RowCatch).
OkResponse(g, sk, r) ==
    [kind |-> "ok", generated |-> g, failed |-> sk + r + r,
     errors |-> [k \in 1..(sk + r + r) |-> "Row error"], error |-> ""]

GenerateResponses(n) ==
    { [kind |-> "network", generated |-> 0, failed |-> 0, errors |-> <<>>, error |-> ""],
      [kind |-> "notOk", generated |-> 0, failed |-> 0, errors |-> <<>>,
       error |-> "Generate failed"] }
        \cup { OkResponse(g, n - g, 0) : g \in {0, 1, n} \cap (0..n) }
        \cup { OkResponse(g, 0, n - g) : g \in {0, 1, n} \cap (0..n) }

\* Math.ceil(a / b)
Ceil(a, b) == (a + b - 1) \div b

\* previewRows.filter(r => r.isValid && selectedIndices.has(r.index)).map(...)
RECURSIVE ToGenerate(_, _)
ToGenerate(previewRows, selectedIndices) ==
    IF Len(previewRows) = 0 THEN <<>>
    ELSE LET r == Head(previewRows)
         IN  (IF r.isValid /\ r.index \in selectedIndices
              THEN <<[data |-> r.data, isValid |-> TRUE]>> ELSE <<>>)
             \o ToGenerate(Tail(previewRows), selectedIndices)

\* The mutation of Slice whose end bound is inclusive.
Slice_InclusiveEnd(a, start, end) ==
    SubSeq(a, start + 1, IF end + 1 < Len(a) THEN end + 1 ELSE Len(a))

\* array.slice(start, end) with 0-based bounds.
Slice(a, start, end) ==
    SubSeq(a, start + 1, IF end < Len(a) THEN end ELSE Len(a))

ValidIndices(previewRows) ==
    { previewRows[k].index : k \in { j \in 1..Len(previewRows) : previewRows[j].isValid } }

NoProgress == [current |-> 0, total |-> 0, successes |-> 0, failures |-> 0]

\* The state of the component after construction (lines 32-39).
ModalInitial ==
    [step |-> "upload", file |-> FALSE, isUploading |-> FALSE, previewRows |-> <<>>,
     selectedIndices |-> {}, isGenerating |-> FALSE, uploadError |-> "",
     progress |-> NoProgress]

\* reset (lines 41-48).
reset(m) ==
    [m EXCEPT !.step = "upload", !.file = FALSE, !.previewRows = <<>>,
              !.selectedIndices = {}, !.uploadError = "", !.progress = NoProgress]

\* requests and inFlight record the fetches of the run (history only).
GenIdle ==
    [pc |-> "idle", toGenerate |-> <<>>, totalBatches |-> 0, i |-> 0,
     successes |-> 0, failures |-> 0, allErrors |-> <<>>, toasts |-> {},
     onSuccess |-> FALSE, requests |-> <<>>, inFlight |-> 0]

\* The mutation of AwaitFetch that does not wait for the response.
AwaitFetch_NoWait(g, batch) ==
    [g EXCEPT !.i = g.i + 1,
              !.requests = Append(g.requests, batch),
              !.inFlight = g.inFlight + 1]

\* await fetch(...) (lines 149-154): the request is sent and handleGenerate
\* is suspended until the response arrives.
AwaitFetch(g, batch) ==
    [g EXCEPT !.pc = "await",
              !.requests = Append(g.requests, batch),
              !.inFlight = g.inFlight + 1]

ClientIdle ==
    /\ showImportModal = FALSE
    /\ modal = ModalInitial
    /\ gen = GenIdle

(***************************************************************************)
(* src/unnamed/part_007: generateCertificateNumber, generateRandomString   *)
(***************************************************************************)
chars == "ABCDEFGHIJKLMNOPQRSTUVWXYZ0123456789"

\* The mutation of CharsAt for an alphabet in lower case.
CharsAt_LowerCase(randomIndex) == LowerChar(Char(chars, randomIndex + 1))

\* chars[randomIndex]
CharsAt(randomIndex) == Char(chars, randomIndex + 1)

\* Values of Math.floor(Math.random() * chars.length): 'A', 'Z', '0', '9'.
RandomIndexes == {0, 25, 26, 35}

\* Values of new Date().getFullYear().
Years == {2025, 2026, 2027}

NumberIdle ==
    numberCall = [pc |-> "idle", year |-> 0, length |-> 0, i |-> 0, result |-> "",
              certificateNumber |-> ""]

NoColumnMap == [key \in DOMAIN COLUMNS |-> -1]

ValidatorIdle ==
    /\ rows = <<>>
    /\ existingCertNumbers = {}
    /\ vpc = "done"
    /\ i = 0
    /\ columnMap = NoColumnMap
    /\ seenCerts = {}
    /\ results = <<>>

ServerIdle ==
    /\ events = InitialEvents
    /\ certificates = {}
    /\ storage = {}
    /\ cloudinaryConfigured = TRUE
    /\ call = [c \in Slots |-> IdleCall]
    /\ faults = 0

InitValidator ==
    /\ rows \in InputTables
    /\ existingCertNumbers \in ExistingSets
    /\ vpc = "call"
    /\ i = 0
    /\ columnMap = NoColumnMap
    /\ seenCerts = {}
    /\ results = <<>>
    /\ ServerIdle
    /\ ClientIdle
    /\ NumberIdle

\* validateImportRows up to the loop: the early return and the set-up.
validateImportRowsEnter ==
    /\ vpc = "call"
    /\ IF Len(rows) < 2
       THEN /\ vpc' = "done"
            /\ UNCHANGED <<i, columnMap, seenCerts>>
       ELSE /\ vpc' = "loop"
            /\ i' = 1
            /\ columnMap' = findColumnKey(rows[1])
            /\ seenCerts' = existingCertNumbers
    /\ results' = <<>>
    /\ UNCHANGED <<rows, existingCertNumbers, serverVars, clientVars, utilVars>>

\* One iteration that takes the duplicate branch (push, continue).
validateImportRowsDuplicate ==
    /\ vpc = "loop"
    /\ i < Len(rows)
    /\ IsDuplicateInFile(rows[i + 1], columnMap, seenCerts)
    /\ results' = Append(results, DuplicateInFileResult(rows[i + 1], i, columnMap))
    /\ i' = i + 1
    /\ UNCHANGED <<rows, existingCertNumbers, vpc, columnMap, seenCerts, serverVars, clientVars, utilVars>>

\* One iteration that records the number and calls validateRow.
validateImportRowsValidate ==
    /\ vpc = "loop"
    /\ i < Len(rows)
    /\ ~IsDuplicateInFile(rows[i + 1], columnMap, seenCerts)
    /\ seenCerts' = SeenAfter(rows[i + 1], columnMap, seenCerts)
    /\ results' = Append(results, ValidatedResult(rows[i + 1], i, columnMap, seenCerts))
    /\ i' = i + 1
    /\ UNCHANGED <<rows, existingCertNumbers, vpc, columnMap, serverVars, clientVars, utilVars>>

validateImportRowsReturn ==
    /\ vpc = "loop"
    /\ i >= Len(rows)
    /\ vpc' = "done"
    /\ UNCHANGED <<rows, existingCertNumbers, i, columnMap, seenCerts, results, serverVars, clientVars, utilVars>>

NextValidator ==
    \/ validateImportRowsEnter
    \/ validateImportRowsDuplicate
    \/ validateImportRowsValidate
    \/ validateImportRowsReturn

SpecValidator == InitValidator /\ [][NextValidator]_vars

(***************************************************************************)
(* POST /api/admin/certificates/generate, one action per await.            *)
(***************************************************************************)
\* An external service or the database fails at this step.
InjectFault ==
    /\ faults < MaxFaults
    /\ faults' = faults + 1

\* Lines 30-60: requireAdmin, request.json, the body checks, the filter, the
\* cap, the empty case and the storage configuration.
GenerateAccept(req) ==
    LET k == [IdleCall EXCEPT !.op = "generate",
                              !.authed = req.authed,
                              !.eventId = req.eventId,
                              !.rows = req.rows,
                              !.validRows = Filter(req.rows),
                              !.nrows = Len(req.rows)]
    IN  IF ~req.authed THEN Respond(k, ErrorResponse(401, "Unauthorized"))
        ELSE IF ~req.jsonOk THEN OuterCatch(k)
        ELSE IF req.eventId = "" \/ ~req.rowsIsArray
             THEN Respond(k, ErrorResponse(400, "eventId and rows (array) are required."))
        ELSE IF ExceedsCap(k.validRows)
             THEN Respond(k, ErrorResponse(400, "Maximum 20 rows per request."))
        ELSE IF Len(k.validRows) = 0 THEN Respond(k, SuccessResponse(0, 0, <<>>))
        ELSE IF ~cloudinaryConfigured
             THEN Respond(k, ErrorResponse(500, "Cloud storage not configured. Please contact administrator."))
        ELSE [k EXCEPT !.pc = "findEvent"]

GenerateStart(c, requests) ==
    /\ call[c].pc = "idle"
    /\ \E req \in requests : call' = [call EXCEPT ![c] = GenerateAccept(req)]
    /\ UNCHANGED <<clientVars, utilVars, validatorVars, events, certificates, storage, cloudinaryConfigured, faults>>

\* Lines 62-74: connectDB, Event.findById.
GenerateFindEvent(c) ==
    /\ call[c].op = "generate"
    /\ call[c].pc = "findEvent"
    /\ \/ /\ InjectFault
          /\ call' = [call EXCEPT ![c] = OuterCatch(call[c])]
       \/ /\ UNCHANGED faults
          /\ call' = [call EXCEPT ![c] =
                IF findById(events, call[c].eventId)
                THEN [call[c] EXCEPT !.pc = "row", !.idx = 1]
                ELSE Respond(call[c], ErrorResponse(404, "Event not found"))]
    /\ UNCHANGED <<clientVars, utilVars, validatorVars, events, certificates, storage, cloudinaryConfigured>>

\* Lines 76-82 and 89-92: the head of one iteration; lines 152-163 when the
\* rows are exhausted.
GenerateRowHead(k) ==
    IF k.idx > Len(k.validRows)
    THEN Respond(k, SuccessResponse(k.generated, k.failed, k.errors))
    ELSE LET data == k.validRows[k.idx].data
         IN  IF RowHeadThrows(data) THEN OuterCatch(k)
             ELSE [k EXCEPT !.participantName = RowParticipantName(data),
                            !.certificateNumber = RowCertificateNumber(data),
                            !.isUnique = FALSE,
                            !.attempts = 0,
                            !.pc = IF RowCertificateNumber(data) # ""
                                   THEN "checkSupplied" ELSE "generateNumber"]

GenerateRow(c) ==
    /\ call[c].pc = "row"
    /\ call' = [call EXCEPT ![c] = GenerateRowHead(call[c])]
    /\ UNCHANGED <<clientVars, utilVars, validatorVars, events, certificates, storage, cloudinaryConfigured, faults>>

\* Lines 83-88: the existence check of a supplied number.
GenerateCheckSupplied(c) ==
    /\ call[c].pc = "checkSupplied"
    /\ LET k == [call[c] EXCEPT !.checks = call[c].checks + 1]
       IN  \/ /\ InjectFault
              /\ call' = [call EXCEPT ![c] = RowCatch(k, "database error", "check")]
           \/ /\ UNCHANGED faults
              /\ call' = [call EXCEPT ![c] =
                    IF findOne(certificates, k.certificateNumber)
                    THEN RowSkip(k, ExistsMessage(k.participantName, k.certificateNumber))
                    ELSE [k EXCEPT !.pc = "qr"]]
    /\ UNCHANGED <<clientVars, utilVars, validatorVars, events, certificates, storage, cloudinaryConfigured>>

\* Lines 93-103: one iteration of the while loop and the test after it.
GenerateNumberAttempt(c) ==
    /\ call[c].op = "generate"
    /\ call[c].pc = "generateNumber"
    /\ \/ /\ InjectFault
          /\ call' = [call EXCEPT ![c] =
                RowCatch([call[c] EXCEPT !.checks = call[c].checks + 1],
                         "database error", "check")]
       \/ /\ UNCHANGED faults
          /\ \E randomChars \in RandomChars :
                LET number == generateCertificateNumber(CurrentYear, randomChars)
                    k == [call[c] EXCEPT !.certificateNumber = number,
                                         !.isUnique = ~findOne(certificates, number),
                                         !.attempts = call[c].attempts + 1,
                                         !.checks = call[c].checks + 1]
                IN  call' = [call EXCEPT ![c] =
                        IF k.isUnique THEN [k EXCEPT !.pc = "qr"]
                        ELSE IF k.attempts < maxAttempts THEN k
                        ELSE RowSkip(k, NoUniqueMessage(k.participantName))]
    /\ UNCHANGED <<clientVars, utilVars, validatorVars, events, certificates, storage, cloudinaryConfigured>>

\* Line 106: generateQRCode.
GenerateQR(c) ==
    /\ call[c].pc = "qr"
    /\ \/ /\ InjectFault
          /\ call' = [call EXCEPT ![c] = RowCatch(call[c], "Failed to generate QR code", "qr")]
       \/ /\ UNCHANGED faults
          /\ call' = [call EXCEPT ![c].pc = "render"]
    /\ UNCHANGED <<clientVars, utilVars, validatorVars, events, certificates, storage, cloudinaryConfigured>>

\* Lines 107-120: generateCertificatePDF.
GenerateRender(c) ==
    /\ call[c].op = "generate"
    /\ call[c].pc = "render"
    /\ LET k == [call[c] EXCEPT !.renders = call[c].renders + 1]
       IN  \/ /\ InjectFault
              /\ call' = [call EXCEPT ![c] =
                    RowCatch(k, "PDF generation timed out. Please try again.", "render")]
           \/ /\ UNCHANGED faults
              /\ call' = [call EXCEPT ![c] = [k EXCEPT !.pc = "upload"]]
    /\ UNCHANGED <<clientVars, utilVars, validatorVars, events, certificates, storage, cloudinaryConfigured>>

\* Line 121: uploadCertificatePDF.
GenerateUpload(c) ==
    /\ call[c].op = "generate"
    /\ call[c].pc = "upload"
    /\ \/ /\ InjectFault
          /\ call' = [call EXCEPT ![c] =
                RowCatch(call[c], "Failed to upload certificate to cloud storage", "upload")]
          /\ UNCHANGED storage
       \/ /\ UNCHANGED faults
          /\ storage' = storage \cup {PublicIdOf(call[c].certificateNumber)}
          /\ call' = [call EXCEPT ![c].pc = "create",
                                  ![c].uploads = call[c].uploads + 1]
    /\ UNCHANGED <<clientVars, utilVars, validatorVars, events, certificates, cloudinaryConfigured>>

\* Lines 122-141: Certificate.create and generated++.
GenerateCreate(c) ==
    /\ call[c].op = "generate"
    /\ call[c].pc = "create"
    /\ LET k == call[c]
           docAt(issuedAt) ==
               CertificateDoc(<<c, k.idx>>, k.certificateNumber, k.participantName,
                              k.eventId, PublicIdOf(k.certificateNumber), issuedAt)
           doc == docAt(1)
       IN  \/ /\ InjectFault
              /\ call' = [call EXCEPT ![c] = RowCatch(k, "database error", "create")]
              /\ UNCHANGED certificates
           \/ /\ UNCHANGED faults
              /\ IF FailsValidation(doc)
                 THEN /\ call' = [call EXCEPT ![c] =
                            RowCatch(k, "Certificate validation failed: participantName: Participant name is required", "create")]
                      /\ UNCHANGED certificates
                 ELSE IF ViolatesUniqueIndex(certificates, doc)
                 THEN /\ call' = [call EXCEPT ![c] =
                            RowCatch(k, "E11000 duplicate key error", "create")]
                      /\ UNCHANGED certificates
                 ELSE /\ \E issuedAt \in Instants :
                            certificates' = certificates \cup {docAt(issuedAt)}
                      /\ call' = [call EXCEPT ![c].generated = k.generated + 1,
                                              ![c].inserts = k.inserts + 1,
                                              ![c].idx = k.idx + 1,
                                              ![c].pc = "row"]
    /\ UNCHANGED <<clientVars, utilVars, validatorVars, events, storage, cloudinaryConfigured>>

Generate(c) ==
    \/ GenerateFindEvent(c)
    \/ GenerateRow(c)
    \/ GenerateCheckSupplied(c)
    \/ GenerateNumberAttempt(c)
    \/ GenerateQR(c)
    \/ GenerateRender(c)
    \/ GenerateUpload(c)
    \/ GenerateCreate(c)

\* One generate request at a time, with the bodies of BatchRequests.
InitBatch ==
    /\ ValidatorIdle
    /\ events = InitialEvents
    /\ certificates = {}
    /\ storage = {}
    /\ cloudinaryConfigured \in BOOLEAN
    /\ call = [c \in Slots |-> IdleCall]
    /\ faults = 0
    /\ ClientIdle
    /\ NumberIdle

NextBatch ==
    \/ GenerateStart(1, BatchRequests)
    \/ Generate(1)

SpecBatch == InitBatch /\ [][NextBatch]_vars

(***************************************************************************)
(* POST /api/admin/certificates (one certificate), part_010 lines 193-348. *)
(***************************************************************************)
SingleRequest(authed, eventId, participantName) ==
    [authed |-> authed, eventId |-> eventId, participantName |-> participantName]

SingleRequests ==
    { SingleRequest(TRUE, "ev1", "Kiran"),
      SingleRequest(TRUE, "ev404", "Kiran"),
      SingleRequest(TRUE, "ev1", ""),
      SingleRequest(FALSE, "ev1", "Kiran") }

\* The catch block of the single route: every error answers 500 (401 for the
\* error of requireAdmin).
SingleCatch(k) ==
    [k EXCEPT !.pc = "done", !.response = ErrorResponse(500, "Failed to create certificate")]

\* Lines 197-217.
SingleAccept(req) ==
    LET k == [IdleCall EXCEPT !.op = "single",
                              !.authed = req.authed,
                              !.eventId = req.eventId,
                              !.participantName = req.participantName]
    IN  IF ~req.authed THEN Respond(k, ErrorResponse(401, "Unauthorized"))
        ELSE IF req.eventId = "" \/ req.participantName = ""
             THEN Respond(k, ErrorResponse(400, "Event ID and participant name are required"))
        ELSE IF ~cloudinaryConfigured
             THEN Respond(k, ErrorResponse(500, "Cloud storage not configured. Please contact administrator."))
        ELSE [k EXCEPT !.pc = "findEvent"]

SingleStart(c) ==
    /\ call[c].pc = "idle"
    /\ \E req \in SingleRequests : call' = [call EXCEPT ![c] = SingleAccept(req)]
    /\ UNCHANGED <<clientVars, utilVars, validatorVars, events, certificates, storage, cloudinaryConfigured, faults>>

\* Lines 219-235.
SingleFindEvent(c) ==
    /\ call[c].op = "single"
    /\ call[c].pc = "findEvent"
    /\ \/ /\ InjectFault
          /\ call' = [call EXCEPT ![c] = SingleCatch(call[c])]
       \/ /\ UNCHANGED faults
          /\ call' = [call EXCEPT ![c] =
                IF findById(events, call[c].eventId)
                THEN [call[c] EXCEPT !.pc = "generateNumber"]
                ELSE Respond(call[c], ErrorResponse(404, "Event not found"))]
    /\ UNCHANGED <<clientVars, utilVars, validatorVars, events, certificates, storage, cloudinaryConfigured>>

\* Lines 237-251: one iteration of the while loop and the test after it.
SingleNumberAttempt(c) ==
    /\ call[c].op = "single"
    /\ call[c].pc = "generateNumber"
    /\ \/ /\ InjectFault
          /\ call' = [call EXCEPT ![c] = SingleCatch(call[c])]
       \/ /\ UNCHANGED faults
          /\ \E randomChars \in RandomChars :
                LET number == generateCertificateNumber(CurrentYear, randomChars)
                    k == [call[c] EXCEPT !.certificateNumber = number,
                                         !.isUnique = ~findOne(certificates, number),
                                         !.attempts = call[c].attempts + 1,
                                         !.checks = call[c].checks + 1]
                IN  call' = [call EXCEPT ![c] =
                        IF k.isUnique THEN [k EXCEPT !.pc = "render"]
                        ELSE IF k.attempts < maxAttempts THEN k
                        ELSE Respond(k, ErrorResponse(500, "Failed to generate unique certificate number"))]
    /\ UNCHANGED <<clientVars, utilVars, validatorVars, events, certificates, storage, cloudinaryConfigured>>

\* Lines 259-283: generateQRCode and generateCertificatePDF.
SingleRender(c) ==
    /\ call[c].op = "single"
    /\ call[c].pc = "render"
    /\ \/ /\ InjectFault
          /\ call' = [call EXCEPT ![c] = SingleCatch(call[c])]
       \/ /\ UNCHANGED faults
          /\ call' = [call EXCEPT ![c].pc = "upload", ![c].renders = call[c].renders + 1]
    /\ UNCHANGED <<clientVars, utilVars, validatorVars, events, certificates, storage, cloudinaryConfigured>>

\* Lines 285-287: uploadCertificatePDF.
SingleUpload(c) ==
    /\ call[c].op = "single"
    /\ call[c].pc = "upload"
    /\ \/ /\ InjectFault
          /\ call' = [call EXCEPT ![c] = SingleCatch(call[c])]
          /\ UNCHANGED storage
       \/ /\ UNCHANGED faults
          /\ storage' = storage \cup {PublicIdOf(call[c].certificateNumber)}
          /\ call' = [call EXCEPT ![c].pc = "create", ![c].uploads = call[c].uploads + 1]
    /\ UNCHANGED <<clientVars, utilVars, validatorVars, events, certificates, cloudinaryConfigured>>

\* Lines 289-332: Certificate.create and the response.
SingleCreate(c) ==
    /\ call[c].op = "single"
    /\ call[c].pc = "create"
    /\ LET k == call[c]
           docAt(issuedAt) ==
               CertificateDoc(<<c, 0>>, k.certificateNumber, k.participantName,
                              k.eventId, PublicIdOf(k.certificateNumber), issuedAt)
           doc == docAt(1)
       IN  \/ /\ InjectFault
              /\ call' = [call EXCEPT ![c] = SingleCatch(k)]
              /\ UNCHANGED certificates
           \/ /\ UNCHANGED faults
              /\ IF FailsValidation(doc) \/ ViolatesUniqueIndex(certificates, doc)
                 THEN /\ call' = [call EXCEPT ![c] = SingleCatch(k)]
                      /\ UNCHANGED certificates
                 ELSE /\ \E issuedAt \in Instants :
                            certificates' = certificates \cup {docAt(issuedAt)}
                      /\ call' = [call EXCEPT ![c] =
                            Respond([k EXCEPT !.inserts = 1, !.generated = 1],
                                    SuccessResponse(1, 0, <<>>))]
    /\ UNCHANGED <<clientVars, utilVars, validatorVars, events, storage, cloudinaryConfigured>>

Single(c) ==
    \/ SingleFindEvent(c)
    \/ SingleNumberAttempt(c)
    \/ SingleRender(c)
    \/ SingleUpload(c)
    \/ SingleCreate(c)

(***************************************************************************)
(* DELETE /api/admin/certificates/[certificateId],                         *)
(* src/app/api/admin/certificates/export/route.ts lines 242-298.           *)
(***************************************************************************)
UnknownId == <<0, 0>>

DeleteCatch(k) ==
    [k EXCEPT !.pc = "done", !.response = ErrorResponse(500, "Failed to delete certificate")]

\* Lines 248-252: requireAdmin and the id of the path.
DeleteStart(c) ==
    /\ call[c].pc = "idle"
    /\ \E authed \in BOOLEAN : \E id \in { d.id : d \in certificates } \cup {UnknownId} :
          LET k == [IdleCall EXCEPT !.op = "delete", !.authed = authed, !.target = id]
          IN  call' = [call EXCEPT ![c] =
                  IF authed THEN [k EXCEPT !.pc = "findById"]
                  ELSE Respond(k, ErrorResponse(401, "Unauthorized"))]
    /\ UNCHANGED <<clientVars, utilVars, validatorVars, events, certificates, storage, cloudinaryConfigured, faults>>

\* Lines 254-261: Certificate.findById.
DeleteFind(c) ==
    /\ call[c].pc = "findById"
    /\ \/ /\ InjectFault
          /\ call' = [call EXCEPT ![c] = DeleteCatch(call[c])]
       \/ /\ UNCHANGED faults
          /\ call' = [call EXCEPT ![c] =
                IF \E d \in certificates : d.id = call[c].target
                THEN LET d == CHOOSE d \in certificates : d.id = call[c].target
                     IN  [call[c] EXCEPT !.pc = "deletePDF",
                                         !.certificateNumber = d.certificateNumber,
                                         !.publicId = d.cloudinaryPublicId]
                ELSE Respond(call[c], ErrorResponse(404, "Certificate not found"))]
    /\ UNCHANGED <<clientVars, utilVars, validatorVars, events, certificates, storage, cloudinaryConfigured>>

\* The mutation of DeletePDF that gives up when the PDF cannot be deleted.
DeletePDF_GivesUp(c) ==
    /\ call[c].pc = "deletePDF"
    /\ \/ /\ InjectFault
          /\ call' = [call EXCEPT ![c] = DeleteCatch(call[c])]
          /\ UNCHANGED storage
       \/ /\ UNCHANGED faults
          /\ storage' = storage \ {call[c].publicId}
          /\ call' = [call EXCEPT ![c].pc = "deleteRecord"]
    /\ UNCHANGED <<clientVars, utilVars, validatorVars, events, certificates, cloudinaryConfigured>>

\* Lines 263-274: deleteCertificatePDF inside its own try block.
DeletePDF(c) ==
    /\ call[c].pc = "deletePDF"
    /\ \/ /\ InjectFault
          /\ UNCHANGED storage
       \/ /\ UNCHANGED faults
          /\ storage' = storage \ {call[c].publicId}
    /\ call' = [call EXCEPT ![c].pc = "deleteRecord"]
    /\ UNCHANGED <<clientVars, utilVars, validatorVars, events, certificates, cloudinaryConfigured>>

\* The mutation of findByIdAndDelete that keeps the record and clears its
\* storage handle.
findByIdAndDelete_Unlink(store, id) ==
    { IF d.id = id THEN [d EXCEPT !.cloudinaryPublicId = ""] ELSE d : d \in store }

\* Certificate.findByIdAndDelete(certificateId)
findByIdAndDelete(store, id) == { d \in store : d.id # id }

\* Lines 276-288: Certificate.findByIdAndDelete and the response.
DeleteRecord(c) ==
    /\ call[c].pc = "deleteRecord"
    /\ \/ /\ InjectFault
          /\ call' = [call EXCEPT ![c] = DeleteCatch(call[c])]
          /\ UNCHANGED certificates
       \/ /\ UNCHANGED faults
          /\ certificates' = findByIdAndDelete(certificates, call[c].target)
          /\ call' = [call EXCEPT ![c] = Respond(call[c], SuccessResponse(0, 0, <<>>))]
    /\ UNCHANGED <<clientVars, utilVars, validatorVars, events, storage, cloudinaryConfigured>>

Delete(c) ==
    \/ DeleteFind(c)
    \/ DeletePDF(c)
    \/ DeleteRecord(c)

(***************************************************************************)
(* DELETE /api/admin/events/[eventId], src/unnamed/part_013 lines 157-208. *)
(***************************************************************************)
EventDeleteCatch(k) ==
    [k EXCEPT !.pc = "done", !.response = ErrorResponse(500, "Failed to delete event")]

\* Certificate.countDocuments({ eventId })
countDocuments(store, eventId) == Cardinality({ d \in store : d.eventId = eventId })

\* Lines 163-167: requireAdmin and the id of the path.
EventDeleteStart(c) ==
    /\ call[c].pc = "idle"
    /\ \E authed \in BOOLEAN : \E id \in {"ev1", "ev404"} :
          LET k == [IdleCall EXCEPT !.op = "eventDelete", !.authed = authed, !.eventId = id]
          IN  call' = [call EXCEPT ![c] =
                  IF authed THEN [k EXCEPT !.pc = "eventFind"]
                  ELSE Respond(k, ErrorResponse(401, "Unauthorized"))]
    /\ UNCHANGED <<clientVars, utilVars, validatorVars, events, certificates, storage, cloudinaryConfigured, faults>>

\* Lines 169-173: Event.findById.
EventDeleteFind(c) ==
    /\ call[c].pc = "eventFind"
    /\ \/ /\ InjectFault
          /\ call' = [call EXCEPT ![c] = EventDeleteCatch(call[c])]
       \/ /\ UNCHANGED faults
          /\ call' = [call EXCEPT ![c] =
                IF findById(events, call[c].eventId)
                THEN [call[c] EXCEPT !.pc = "eventCount"]
                ELSE Respond(call[c], ErrorResponse(404, "Event not found"))]
    /\ UNCHANGED <<clientVars, utilVars, validatorVars, events, certificates, storage, cloudinaryConfigured>>

\* Lines 175-185: Certificate.countDocuments.
EventDeleteCount(c) ==
    /\ call[c].pc = "eventCount"
    /\ \/ /\ InjectFault
          /\ call' = [call EXCEPT ![c] = EventDeleteCatch(call[c])]
       \/ /\ UNCHANGED faults
          /\ call' = [call EXCEPT ![c] =
                IF countDocuments(certificates, call[c].eventId) > 0
                THEN Respond(call[c],
                             ErrorResponse(400, "Cannot delete event with existing certificates"))
                ELSE [call[c] EXCEPT !.pc = "eventRemove"]]
    /\ UNCHANGED <<clientVars, utilVars, validatorVars, events, certificates, storage, cloudinaryConfigured>>

\* Lines 187-198: Event.findByIdAndDelete and the response.
EventDeleteRecord(c) ==
    /\ call[c].pc = "eventRemove"
    /\ \/ /\ InjectFault
          /\ call' = [call EXCEPT ![c] = EventDeleteCatch(call[c])]
          /\ UNCHANGED events
       \/ /\ UNCHANGED faults
          /\ events' = { e \in events : e.id # call[c].eventId }
          /\ call' = [call EXCEPT ![c] = Respond(call[c], SuccessResponse(0, 0, <<>>))]
    /\ UNCHANGED <<clientVars, utilVars, validatorVars, certificates, storage, cloudinaryConfigured>>

EventDelete(c) ==
    \/ EventDeleteFind(c)
    \/ EventDeleteCount(c)
    \/ EventDeleteRecord(c)

(***************************************************************************)
(* The routes of src/app/api/admin/events/route.ts and of part_013 that    *)
(* create, read and update events.                                         *)
(***************************************************************************)
Frame(changed) ==
    /\ UNCHANGED <<clientVars, utilVars, validatorVars, cloudinaryConfigured>>
    /\ IF "events" \in changed THEN TRUE ELSE UNCHANGED events
    /\ IF "certificates" \in changed THEN TRUE ELSE UNCHANGED certificates
    /\ IF "storage" \in changed THEN TRUE ELSE UNCHANGED storage
    /\ IF "faults" \in changed THEN TRUE ELSE UNCHANGED faults

Unauthorized(k) == Respond(k, ErrorResponse(401, "Unauthorized"))

Caught(k, error) == Respond(k, ErrorResponse(500, error))

EventTitles == {"", "Hackathon"}

\* POST /api/admin/events, lines 12-45: requireAdmin, the body checks and the
\* template checks.
EventCreateStart(c) ==
    /\ call[c].pc = "idle"
    /\ \E authed \in BOOLEAN : \E title \in EventTitles : \E templateExists \in BOOLEAN :
          LET k == [IdleCall EXCEPT !.op = "eventCreate", !.authed = authed, !.title = title]
          IN  call' = [call EXCEPT ![c] =
                  IF ~authed THEN Unauthorized(k)
                  ELSE IF title = ""
                       THEN Respond(k, ErrorResponse(400, "Title, start date, and organizer are required"))
                  ELSE IF ~templateExists
                       THEN Respond(k, ErrorResponse(400, "Template file not found"))
                  ELSE [k EXCEPT !.pc = "eventCreate"]]
    /\ Frame({})

\* POST /api/admin/events, lines 47-76: Event.create.
EventCreate(c) ==
    /\ call[c].pc = "eventCreate"
    /\ \/ /\ InjectFault
          /\ call' = [call EXCEPT ![c] = Caught(call[c], "Failed to create event")]
          /\ Frame({"faults"})
       \/ /\ events' = events \cup {EventDoc("ev-new-" \o ToString(c), call[c].title)}
          /\ call' = [call EXCEPT ![c] = Respond(call[c], SuccessResponse(0, 0, <<>>))]
          /\ Frame({"events"})

\* GET /api/admin/events, lines 94-134.
EventListStart(c) ==
    /\ call[c].pc = "idle"
    /\ \E authed \in BOOLEAN :
          LET k == [IdleCall EXCEPT !.op = "eventList", !.authed = authed]
          IN  call' = [call EXCEPT ![c] =
                  IF authed THEN [k EXCEPT !.pc = "eventList"] ELSE Unauthorized(k)]
    /\ Frame({})

EventList(c) ==
    /\ call[c].pc = "eventList"
    /\ \/ /\ InjectFault
          /\ call' = [call EXCEPT ![c] = Caught(call[c], "Failed to fetch events")]
          /\ Frame({"faults"})
       \/ /\ call' = [call EXCEPT ![c] = Respond(call[c], SuccessResponse(0, 0, <<>>))]
          /\ Frame({})

\* GET /api/admin/events/[eventId], part_013 lines 19-59.
EventGetStart(c) ==
    /\ call[c].pc = "idle"
    /\ \E authed \in BOOLEAN : \E id \in {"ev1", "ev404"} :
          LET k == [IdleCall EXCEPT !.op = "eventGet", !.authed = authed, !.eventId = id]
          IN  call' = [call EXCEPT ![c] =
                  IF authed THEN [k EXCEPT !.pc = "eventGet"] ELSE Unauthorized(k)]
    /\ Frame({})

EventGet(c) ==
    /\ call[c].pc = "eventGet"
    /\ \/ /\ InjectFault
          /\ call' = [call EXCEPT ![c] = Caught(call[c], "Failed to fetch event")]
          /\ Frame({"faults"})
       \/ /\ call' = [call EXCEPT ![c] =
                IF findById(events, call[c].eventId)
                THEN Respond(call[c], SuccessResponse(0, 0, <<>>))
                ELSE Respond(call[c], ErrorResponse(404, "Event not found"))]
          /\ Frame({})

\* Event.findByIdAndUpdate(eventId, { title, ... }, { new: true })
findByIdAndUpdate(store, id, title) ==
    { IF e.id = id THEN [e EXCEPT !.title = title] ELSE e : e \in store }

\* PUT /api/admin/events/[eventId], part_013 lines 71-104 (no template in
\* the body).
EventUpdateStart(c) ==
    /\ call[c].pc = "idle"
    /\ \E authed \in BOOLEAN : \E id \in {"ev1", "ev404"} : \E title \in EventTitles :
          LET k == [IdleCall EXCEPT !.op = "eventUpdate", !.authed = authed,
                                    !.eventId = id, !.title = title]
          IN  call' = [call EXCEPT ![c] =
                  IF ~authed THEN Unauthorized(k)
                  ELSE IF title = ""
                       THEN Respond(k, ErrorResponse(400, "Title, start date, and organizer are required"))
                  ELSE [k EXCEPT !.pc = "eventUpdate"]]
    /\ Frame({})

\* PUT /api/admin/events/[eventId], part_013 lines 106-141.
EventUpdate(c) ==
    /\ call[c].pc = "eventUpdate"
    /\ \/ /\ InjectFault
          /\ call' = [call EXCEPT ![c] = Caught(call[c], "Failed to update event")]
          /\ Frame({"faults"})
       \/ /\ events' = findByIdAndUpdate(events, call[c].eventId, call[c].title)
          /\ call' = [call EXCEPT ![c] =
                IF findById(events, call[c].eventId)
                THEN Respond(call[c], SuccessResponse(0, 0, <<>>))
                ELSE Respond(call[c], ErrorResponse(404, "Event not found"))]
          /\ Frame({"events"})

Events(c) ==
    \/ EventCreateStart(c)
    \/ EventCreate(c)
    \/ EventListStart(c)
    \/ EventList(c)
    \/ EventGetStart(c)
    \/ EventGet(c)
    \/ EventUpdateStart(c)
    \/ EventUpdate(c)

(***************************************************************************)
(* The routes that read certificates: GET /api/admin/certificates          *)
(* (part_010 lines 350-393), GET /api/admin/events/[eventId]/certificates, *)
(* POST /api/admin/certificates/export and POST .../import.                *)
(***************************************************************************)
CertificateListStart(c) ==
    /\ call[c].pc = "idle"
    /\ \E authed \in BOOLEAN :
          LET k == [IdleCall EXCEPT !.op = "certificateList", !.authed = authed]
          IN  call' = [call EXCEPT ![c] =
                  IF authed THEN [k EXCEPT !.pc = "certificateList"] ELSE Unauthorized(k)]
    /\ Frame({})

CertificateList(c) ==
    /\ call[c].pc = "certificateList"
    /\ \/ /\ InjectFault
          /\ call' = [call EXCEPT ![c] = Caught(call[c], "Failed to fetch certificates")]
          /\ Frame({"faults"})
       \/ /\ call' = [call EXCEPT ![c] = Respond(call[c], SuccessResponse(0, 0, <<>>))]
          /\ Frame({})

\* events/[eventId]/certificates/route.ts lines 21-23.
EventCertificatesStart(c) ==
    /\ call[c].pc = "idle"
    /\ \E authed \in BOOLEAN : \E id \in {"ev1", "ev404"} :
          LET k == [IdleCall EXCEPT !.op = "eventCertificates", !.authed = authed,
                                    !.eventId = id]
          IN  call' = [call EXCEPT ![c] =
                  IF authed THEN [k EXCEPT !.pc = "eventCertificatesEvent"]
                  ELSE Unauthorized(k)]
    /\ Frame({})

\* Lines 26-35: Event.findById.
EventCertificatesEvent(c) ==
    /\ call[c].pc = "eventCertificatesEvent"
    /\ \/ /\ InjectFault
          /\ call' = [call EXCEPT ![c] = Caught(call[c], "Failed to fetch certificates")]
          /\ Frame({"faults"})
       \/ /\ call' = [call EXCEPT ![c] =
                IF findById(events, call[c].eventId)
                THEN [call[c] EXCEPT !.pc = "eventCertificatesFind"]
                ELSE Respond(call[c], ErrorResponse(404, "Event not found"))]
          /\ Frame({})

\* Lines 37-64: Certificate.find({ eventId }) and the response.
EventCertificatesFind(c) ==
    /\ call[c].pc = "eventCertificatesFind"
    /\ \/ /\ InjectFault
          /\ call' = [call EXCEPT ![c] = Caught(call[c], "Failed to fetch certificates")]
          /\ Frame({"faults"})
       \/ /\ call' = [call EXCEPT ![c] =
                Respond(call[c],
                        SuccessResponse(countDocuments(certificates, call[c].eventId), 0, <<>>))]
          /\ Frame({})

\* POST export, lines 21-48: requireAdmin and the body.
ExportStart(c) ==
    /\ call[c].pc = "idle"
    /\ \E authed \in BOOLEAN : \E id \in {"", "ev1"} :
          LET k == [IdleCall EXCEPT !.op = "export", !.authed = authed, !.eventId = id]
          IN  call' = [call EXCEPT ![c] =
                  IF authed THEN [k EXCEPT !.pc = "exportFind"] ELSE Unauthorized(k)]
    /\ Frame({})

\* POST export, lines 32-89: Certificate.find and the file.
ExportFind(c) ==
    /\ call[c].pc = "exportFind"
    /\ \/ /\ InjectFault
          /\ call' = [call EXCEPT ![c] = Caught(call[c], "Export failed")]
          /\ Frame({"faults"})
       \/ /\ call' = [call EXCEPT ![c] =
                IF call[c].eventId = ""
                THEN Respond(call[c], ErrorResponse(400, "Provide certificateIds (array) or eventId."))
                ELSE Respond(call[c],
                        SuccessResponse(countDocuments(certificates, call[c].eventId), 0, <<>>))]
          /\ Frame({})

\* The tables an uploaded file parses to.
ImportTables ==
    { <<>>,
      << <<"Name", "Email", "Event", "Start Date", "End Date", "Certificate Number">>,
         <<"Ann", "", "Bootcamp", "10-04-2026", "2026-04-12", "ecell-2026-aaaaa">> >>,
      << <<"Name", "Email", "Event", "Start Date", "End Date", "Certificate Number">>,
         <<"Bob", "bob@ecell.in", "Bootcamp", "2026-04-10", "", "">> >> }

\* POST import, lines 124-174: requireAdmin, the file and its rows.
ImportStart(c) ==
    /\ call[c].pc = "idle"
    /\ \E authed \in BOOLEAN : \E fileOk \in BOOLEAN : \E table \in ImportTables :
          LET k == [IdleCall EXCEPT !.op = "import", !.authed = authed, !.table = table]
          IN  call' = [call EXCEPT ![c] =
                  IF ~authed THEN Unauthorized(k)
                  ELSE IF ~fileOk
                       THEN Respond(k, ErrorResponse(400, "Missing or invalid file."))
                  ELSE IF Len(table) < 2 THEN Respond(k, SuccessResponse(0, 0, <<>>))
                  ELSE [k EXCEPT !.pc = "importFind"]]
    /\ Frame({})

\* POST import, lines 178-185: the existing numbers and the call of
\* validateImportRows.
ImportFind(c) ==
    /\ call[c].pc = "importFind"
    /\ vpc = "done"
    /\ \A other \in Calls : call[other].pc # "importValidate"
    /\ \/ /\ InjectFault
          /\ call' = [call EXCEPT ![c] = Caught(call[c], "Import failed")]
          /\ Frame({"faults"})
       \/ /\ rows' = call[c].table
          /\ existingCertNumbers' = { ToUpperCase(d.certificateNumber) : d \in certificates }
          /\ vpc' = "call"
          /\ call' = [call EXCEPT ![c].pc = "importValidate"]
          /\ UNCHANGED <<i, columnMap, seenCerts, results, clientVars, utilVars, events, certificates,
                         storage, cloudinaryConfigured, faults>>

RECURSIVE CountValid(_)
CountValid(rs) ==
    IF Len(rs) = 0 THEN 0
    ELSE (IF Head(rs).isValid THEN 1 ELSE 0) + CountValid(Tail(rs))

\* POST import, lines 186-206: the counters and the response.
ImportRespond(c) ==
    /\ call[c].pc = "importValidate"
    /\ vpc = "done"
    /\ call' = [call EXCEPT ![c] =
          Respond(call[c],
                  SuccessResponse(CountValid(results), Len(results) - CountValid(results), <<>>))]
    /\ Frame({})

Reads(c) ==
    \/ CertificateListStart(c)
    \/ CertificateList(c)
    \/ EventCertificatesStart(c)
    \/ EventCertificatesEvent(c)
    \/ EventCertificatesFind(c)
    \/ ExportStart(c)
    \/ ExportFind(c)
    \/ ImportStart(c)
    \/ ImportFind(c)
    \/ ImportRespond(c)

(***************************************************************************)
(* DELETE /api/admin/certificates/bulk-delete,                             *)
(* src/app/api/admin/certificates/bulk-delete/route.ts lines 11-102.       *)
(***************************************************************************)
MaxBulkIds == 2

\* The outer catch (lines 95-101): every error, the one of requireAdmin
\* included, answers 500.
BulkDeleteCatch(k) == Caught(k, "Failed to delete certificates")

\* Lines 14-36: requireAdmin, the body and its check.
BulkDeleteStart(c) ==
    /\ call[c].pc = "idle"
    /\ \E authed \in BOOLEAN :
       \E ids \in UpTo({ d.id : d \in certificates } \cup {UnknownId}, MaxBulkIds) :
          LET k == [IdleCall EXCEPT !.op = "bulkDelete", !.authed = authed, !.ids = ids]
          IN  call' = [call EXCEPT ![c] =
                  IF ~authed THEN BulkDeleteCatch(k)
                  ELSE IF Len(ids) = 0
                       THEN Respond(k, ErrorResponse(400, "Invalid request. certificateIds array is required."))
                  ELSE [k EXCEPT !.pc = "bulkFind", !.idx = 1]]
    /\ Frame({})

\* The end of one iteration: the next id, or the response (lines 87-93).
BulkDeleteNext(k) ==
    IF k.idx + 1 > Len(k.ids)
    THEN Respond([k EXCEPT !.idx = k.idx + 1], SuccessResponse(k.deleted, k.failed, k.errors))
    ELSE [k EXCEPT !.idx = k.idx + 1, !.pc = "bulkFind"]

\* failureCount++ and errors.push (lines 45-50 and 70-78).
BulkDeleteFailure(k, error) ==
    BulkDeleteNext([k EXCEPT !.failed = k.failed + 1, !.errors = Append(k.errors, error)])

\* Lines 42-51: Certificate.findById.
BulkDeleteFind(c) ==
    /\ call[c].pc = "bulkFind"
    /\ LET k == call[c]
           id == k.ids[k.idx]
       IN  \/ /\ InjectFault
              /\ call' = [call EXCEPT ![c] = BulkDeleteFailure(k, "database error")]
              /\ Frame({"faults"})
           \/ /\ call' = [call EXCEPT ![c] =
                    IF \E d \in certificates : d.id = id
                    THEN LET d == CHOOSE d \in certificates : d.id = id
                         IN  [k EXCEPT !.pc = "bulkPDF", !.target = id,
                                       !.publicId = d.cloudinaryPublicId]
                    ELSE BulkDeleteFailure(k, "Certificate not found")]
              /\ Frame({})

\* Lines 54-63: deleteCertificatePDF inside its own try block.
BulkDeletePDF(c) ==
    /\ call[c].pc = "bulkPDF"
    /\ call' = [call EXCEPT ![c].pc = "bulkRemove"]
    /\ \/ /\ InjectFault
          /\ Frame({"faults"})
       \/ /\ storage' = storage \ {call[c].publicId}
          /\ Frame({"storage"})

\* Lines 66-78: Certificate.findByIdAndDelete.
BulkDeleteRecord(c) ==
    /\ call[c].pc = "bulkRemove"
    /\ \/ /\ InjectFault
          /\ call' = [call EXCEPT ![c] = BulkDeleteFailure(call[c], "database error")]
          /\ Frame({"faults"})
       \/ /\ certificates' = findByIdAndDelete(certificates, call[c].target)
          /\ call' = [call EXCEPT ![c] =
                BulkDeleteNext([call[c] EXCEPT !.deleted = call[c].deleted + 1])]
          /\ Frame({"certificates"})

BulkDelete(c) ==
    \/ BulkDeleteStart(c)
    \/ BulkDeleteFind(c)
    \/ BulkDeletePDF(c)
    \/ BulkDeleteRecord(c)

(***************************************************************************)
(* GET /api/verify/[certificateNumber], src/unnamed/part_009 lines 336-408 *)
(***************************************************************************)
VerifyNumbers == {"ECELL-2026-AAAAA", "ecell-2026-aaaaa", "ECELL-2026"}

VerifyResponse(status, valid, error) ==
    [ErrorResponse(status, error) EXCEPT !.valid = valid]

\* Lines 341-354: the format check; the route asks for no token.
VerifyStart(c) ==
    /\ call[c].pc = "idle"
    /\ \E certificateNumber \in VerifyNumbers :
          LET k == [IdleCall EXCEPT !.op = "verify", !.certificateNumber = certificateNumber]
          IN  call' = [call EXCEPT ![c] =
                  IF isValidCertificateNumber(certificateNumber)
                  THEN [k EXCEPT !.pc = "verifyFind"]
                  ELSE Respond(k, VerifyResponse(400, FALSE, "Invalid certificate number format"))]
    /\ Frame({})

\* Lines 356-407: Certificate.findOne(...).populate('eventId') and the
\* response; reading certificate.eventId.title of a certificate whose event
\* is gone raises a TypeError.
VerifyFind(c) ==
    /\ call[c].pc = "verifyFind"
    /\ LET k == call[c]
           number == ToUpperCase(k.certificateNumber)
       IN  \/ /\ InjectFault
              /\ call' = [call EXCEPT ![c] =
                    Respond(k, VerifyResponse(500, FALSE, "Failed to verify certificate"))]
              /\ Frame({"faults"})
           \/ /\ call' = [call EXCEPT ![c] =
                    IF ~findOne(certificates, number)
                    THEN Respond(k, VerifyResponse(200, FALSE, ""))
                    ELSE LET d == CHOOSE d \in certificates : d.certificateNumber = number
                         IN  IF findById(events, d.eventId)
                             THEN Respond(k, VerifyResponse(200, TRUE, ""))
                             ELSE Respond(k, VerifyResponse(500, FALSE, "Failed to verify certificate"))]
              /\ Frame({})

Verify(c) ==
    \/ VerifyStart(c)
    \/ VerifyFind(c)

(***************************************************************************)
(* The server: MaxCalls requests handled concurrently, interleaved at      *)
(* their awaits.                                                           *)
(***************************************************************************)
MaxRows == 1

ConcurrentRequests ==
    { Request(TRUE, TRUE, "ev1", TRUE, rs) : rs \in UpTo({RowGenerated, RowSupplied}, MaxRows) }
        \cup { Request(TRUE, TRUE, "ev404", TRUE, <<RowSupplied>>),
               Request(FALSE, TRUE, "ev1", TRUE, <<RowSupplied>>) }

Init ==
    /\ ValidatorIdle
    /\ ServerIdle
    /\ ClientIdle
    /\ NumberIdle

\* One step of one request.
Handle(c) ==
    \/ GenerateStart(c, ConcurrentRequests)
    \/ Generate(c)
    \/ SingleStart(c)
    \/ Single(c)
    \/ DeleteStart(c)
    \/ Delete(c)
    \/ EventDeleteStart(c)
    \/ EventDelete(c)
    \/ Events(c)
    \/ Reads(c)
    \/ BulkDelete(c)

Next ==
    \/ \E c \in Calls : Handle(c)
    \/ Verify(Visitor)
    \/ NextValidator

Spec == Init /\ [][Next]_vars

(***************************************************************************)
(* ImportCertificatesModal: the operator's actions and handleGenerate.     *)
(***************************************************************************)
ServerQuiet == UNCHANGED <<validatorVars, serverVars, utilVars>>

\* Certificates page, part_014 line 418: setShowImportModal(true).
OpenModal ==
    /\ ~showImportModal
    /\ gen.pc \in {"idle", "ended"}
    /\ showImportModal' = TRUE
    /\ gen' = GenIdle
    /\ UNCHANGED modal
    /\ ServerQuiet

\* handleClose (lines 50-53), from the close button (disabled while generating).
handleClose ==
    /\ showImportModal
    /\ ~modal.isGenerating
    /\ modal' = reset(modal)
    /\ showImportModal' = FALSE
    /\ gen' = GenIdle
    /\ ServerQuiet

\* handleFileChange (lines 55-59).
handleFileChange ==
    /\ showImportModal
    /\ modal.step = "upload"
    /\ \E f \in BOOLEAN : modal' = [modal EXCEPT !.file = f, !.uploadError = ""]
    /\ gen' = GenIdle
    /\ UNCHANGED showImportModal
    /\ ServerQuiet

\* handleUpload up to the fetch (lines 61-75).
handleUploadStart ==
    /\ showImportModal
    /\ modal.step = "upload"
    /\ modal.file
    /\ ~modal.isUploading
    /\ modal' = [modal EXCEPT !.isUploading = TRUE, !.uploadError = ""]
    /\ gen' = GenIdle
    /\ UNCHANGED showImportModal
    /\ ServerQuiet

\* handleUpload after the fetch (lines 76-97).
handleUploadResponse ==
    /\ modal.isUploading
    /\ \E res \in ImportResponses :
          modal' = IF res.ok
                   THEN [modal EXCEPT !.previewRows = res.rows,
                                      !.selectedIndices = ValidIndices(res.rows),
                                      !.step = "preview",
                                      !.isUploading = FALSE]
                   ELSE [modal EXCEPT !.uploadError = "Import failed",
                                      !.isUploading = FALSE]
    /\ UNCHANGED <<showImportModal, gen>>
    /\ ServerQuiet

\* toggleRow (lines 100-107).
toggleRow ==
    /\ showImportModal
    /\ modal.step = "preview"
    /\ \E k \in 1..Len(modal.previewRows) :
          LET row == modal.previewRows[k]
          IN  /\ row.isValid
              /\ modal' = [modal EXCEPT !.selectedIndices =
                              IF row.index \in modal.selectedIndices
                              THEN modal.selectedIndices \ {row.index}
                              ELSE modal.selectedIndices \cup {row.index}]
    /\ gen' = GenIdle
    /\ UNCHANGED showImportModal
    /\ ServerQuiet

\* selectAllValid (lines 109-116).
selectAllValid ==
    /\ showImportModal
    /\ modal.step = "preview"
    /\ LET validIndices == ValidIndices(modal.previewRows)
       IN  modal' = [modal EXCEPT !.selectedIndices =
                        IF Cardinality(modal.selectedIndices) = Cardinality(validIndices)
                        THEN {} ELSE validIndices]
    /\ gen' = GenIdle
    /\ UNCHANGED showImportModal
    /\ ServerQuiet

\* The Back button of the preview step (line 340).
BackToUpload ==
    /\ showImportModal
    /\ modal.step = "preview"
    /\ modal' = [modal EXCEPT !.step = "upload"]
    /\ gen' = GenIdle
    /\ UNCHANGED showImportModal
    /\ ServerQuiet

\* handleGenerate up to the loop (lines 118-134); the button is disabled
\* while nothing is selected (line 348).
handleGenerateStart ==
    /\ showImportModal
    /\ modal.step = "preview"
    /\ modal.selectedIndices # {}
    /\ LET toGenerate == ToGenerate(modal.previewRows, modal.selectedIndices)
       IN  IF Len(toGenerate) = 0
           THEN /\ gen' = [GenIdle EXCEPT !.pc = "ended",
                              !.toasts = {"Select at least one valid row to generate."}]
                /\ UNCHANGED modal
           ELSE /\ gen' = [GenIdle EXCEPT !.pc = "loop",
                              !.toGenerate = toGenerate,
                              !.totalBatches = Ceil(Len(toGenerate), MAX_GENERATE_PER_REQUEST)]
                /\ modal' = [modal EXCEPT !.isGenerating = TRUE, !.step = "generating"]
    /\ UNCHANGED showImportModal
    /\ ServerQuiet

\* The head of one iteration (lines 136-154): the progress, the chunk and the
\* fetch.
handleGenerateFetch ==
    /\ gen.pc = "loop"
    /\ gen.i < gen.totalBatches
    /\ LET batchNum == gen.i + 1
           start == gen.i * MAX_GENERATE_PER_REQUEST
           end == start + MAX_GENERATE_PER_REQUEST
           batch == Slice(gen.toGenerate, start, end)
       IN  /\ modal' = [modal EXCEPT !.progress =
                          [current |-> batchNum, total |-> gen.totalBatches,
                           successes |-> gen.successes, failures |-> gen.failures]]
           /\ gen' = AwaitFetch(gen, batch)
    /\ UNCHANGED showImportModal
    /\ ServerQuiet

\* The rest of the iteration (lines 156-172): the response, or the network
\* error, and the counters.
handleGenerateResponse ==
    /\ gen.pc = "await"
    /\ LET batchNum == gen.i + 1
           batch == gen.requests[Len(gen.requests)]
           g == [gen EXCEPT !.pc = "loop", !.i = batchNum, !.inFlight = gen.inFlight - 1]
       IN  \E res \in GenerateResponses(Len(batch)) :
              gen' = CASE res.kind = "network" ->
                            [g EXCEPT !.failures = gen.failures + Len(batch),
                                      !.allErrors = Append(gen.allErrors, "Network error")]
                       [] res.kind = "notOk" ->
                            [g EXCEPT !.failures = gen.failures + Len(batch),
                                      !.allErrors = Append(gen.allErrors, res.error)]
                       [] res.kind = "ok" ->
                            [g EXCEPT !.successes = gen.successes + res.generated,
                                      !.failures = gen.failures + res.failed,
                                      !.allErrors = gen.allErrors \o res.errors]
    /\ UNCHANGED <<showImportModal, modal>>
    /\ ServerQuiet

\* After the loop (lines 175-189).
handleGenerateFinish ==
    /\ gen.pc = "loop"
    /\ gen.i >= gen.totalBatches
    /\ LET m1 == [modal EXCEPT !.isGenerating = FALSE]
           m2 == IF gen.successes > 0 THEN reset(m1) ELSE m1
           m3 == IF gen.failures > 0 THEN [m2 EXCEPT !.step = "preview"] ELSE m2
       IN  /\ modal' = m3
           /\ showImportModal' = IF gen.successes > 0 THEN FALSE ELSE showImportModal
           /\ gen' = [gen EXCEPT !.pc = "ended",
                                 !.onSuccess = (gen.successes > 0),
                                 !.toasts =
                                    (IF gen.successes > 0 THEN {"success"} ELSE {})
                                    \cup (IF gen.failures > 0 THEN {"error"} ELSE {})]
    /\ ServerQuiet

InitClient ==
    /\ ValidatorIdle
    /\ ServerIdle
    /\ ClientIdle
    /\ NumberIdle

NextClient ==
    \/ OpenModal
    \/ handleClose
    \/ handleFileChange
    \/ handleUploadStart
    \/ handleUploadResponse
    \/ toggleRow
    \/ selectAllValid
    \/ BackToUpload
    \/ handleGenerateStart
    \/ handleGenerateFetch
    \/ handleGenerateResponse
    \/ handleGenerateFinish

SpecClient == InitClient /\ [][NextClient]_vars

(***************************************************************************)
(* generateCertificateNumber as a process of its own.                      *)
(***************************************************************************)
Quiet == UNCHANGED <<validatorVars, serverVars, clientVars>>

\* Lines 10-11: the year and the call of generateRandomString(5).
generateCertificateNumberCall ==
    /\ numberCall.pc = "call"
    /\ numberCall' = [numberCall EXCEPT !.pc = "loop", !.length = 5, !.i = 0, !.result = ""]
    /\ Quiet

\* Lines 26-29: one iteration of the loop of generateRandomString.
generateRandomStringStep ==
    /\ numberCall.pc = "loop"
    /\ numberCall.i < numberCall.length
    /\ \E randomIndex \in RandomIndexes :
          numberCall' = [numberCall EXCEPT !.result = numberCall.result \o CharsAt(randomIndex),
                                   !.i = numberCall.i + 1]
    /\ Quiet

\* Lines 31 and 13: the returns.
generateCertificateNumberReturn ==
    /\ numberCall.pc = "loop"
    /\ numberCall.i >= numberCall.length
    /\ numberCall' = [numberCall EXCEPT !.pc = "returned",
                     !.certificateNumber =
                         generateCertificateNumber(ToString(numberCall.year), numberCall.result)]
    /\ Quiet

InitNumber ==
    /\ ValidatorIdle
    /\ ServerIdle
    /\ ClientIdle
    /\ \E year \in Years :
          numberCall = [pc |-> "call", year |-> year, length |-> 0, i |-> 0, result |-> "",
                    certificateNumber |-> ""]

NextNumber ==
    \/ generateCertificateNumberCall
    \/ generateRandomStringStep
    \/ generateCertificateNumberReturn

SpecNumber == InitNumber /\ [][NextNumber]_vars

(***************************************************************************)
(* Properties of validateImportRows (checked under SpecValidator).         *)
(***************************************************************************)
RequiredFields == {"participantName", "eventName", "eventStartDate", "eventEndDate"}

\* The normalized cell of data row k (file row k + 1) in the column of key.
RowCell(k, key) == parseCell(ElementAt(rows[k + 1], columnMap[key]))

RowNumber(k) == formatCertNumber(RowCell(k, "certificateNumber"))

UsedByEarlierRow(k) ==
    \E j \in 1..(k - 1) :
        RowCell(j, "certificateNumber") # "" /\ RowNumber(j) = RowNumber(k)

RowWellFormed(k) ==
    /\ \A f \in RequiredFields : RowCell(k, f) # ""
    /\ isValidDateStr(RowCell(k, "eventStartDate"))
    /\ isValidDateStr(RowCell(k, "eventEndDate"))
    /\ isValidEmail(RowCell(k, "participantEmail"))

WithinFileError == "certificateNumber must be unique within file"

UniqueError == "certificateNumber must be unique"

Has(errors, e) == \E n \in 1..Len(errors) : errors[n] = e

\* C2: a well-formed row whose certificateNumber is non-empty, not in the
\* caller's set and not used by an earlier row of the file is valid.
C2_FirstUseOfNumberIsValid ==
    \A k \in 1..Len(results) :
        ( /\ RowWellFormed(k)
          /\ RowCell(k, "certificateNumber") # ""
          /\ RowNumber(k) \notin existingCertNumbers
          /\ ~UsedByEarlierRow(k) )
        => results[k].isValid

\* C3: a row whose trimmed, upper-cased certificateNumber equals that of an
\* earlier row of the file is invalid with exactly the within-file error,
\* whatever its other fields hold.
C3_DuplicateInFileShortCircuits ==
    \A k \in 1..Len(results) :
        (RowCell(k, "certificateNumber") # "" /\ UsedByEarlierRow(k))
        => /\ results[k].isValid = FALSE
           /\ results[k].errors = <<WithinFileError>>

\* A finished run where a later row repeats an earlier row's number in another
\* letter case and lacks its participantName.
C3_Witness ==
    /\ vpc = "done"
    /\ \E k \in 1..Len(results) :
          /\ UsedByEarlierRow(k)
          /\ RowCell(k, "certificateNumber") # ""
          /\ \E j \in 1..(k - 1) :
                /\ RowNumber(j) = RowNumber(k)
                /\ RowCell(j, "certificateNumber") # RowCell(k, "certificateNumber")
          /\ RowCell(k, "participantName") = ""
          /\ results[k].errors = <<WithinFileError>>

\* C4: a single data row whose number is in the caller's set is invalid with
\* "certificateNumber must be unique" and without the within-file error.
C4_ExistingNumberGetsUniqueError ==
    ( /\ vpc = "done"
      /\ Len(rows) = 2
      /\ RowCell(1, "certificateNumber") # ""
      /\ RowNumber(1) \in existingCertNumbers )
    => /\ results[1].isValid = FALSE
       /\ Has(results[1].errors, UniqueError)
       /\ ~Has(results[1].errors, WithinFileError)

\* C9: a table of at least 2 rows yields rows.length - 1 results in file order
\* with index 2..rows.length; a shorter table yields the empty list.
C9_OneResultPerDataRow ==
    /\ \A k \in 1..Len(results) : results[k].index = k + 1
    /\ vpc = "loop" => Len(results) = i - 1
    /\ vpc = "done" =>
          IF Len(rows) >= 2 THEN Len(results) = Len(rows) - 1 ELSE results = <<>>

\* A finished run over a header and two data rows, the second rejected by the
\* duplicate check.
C9_Witness ==
    /\ vpc = "done"
    /\ Len(rows) = 3
    /\ Len(results) = 2
    /\ results[2].errors = <<WithinFileError>>
    /\ results[2].index = 3

RejectedAsDuplicate(k) ==
    /\ RowCell(k, "certificateNumber") # ""
    /\ \/ RowNumber(k) \in existingCertNumbers
       \/ UsedByEarlierRow(k)

C11_DataCarriesEveryField ==
    \A k \in 1..Len(results) :
        LET data == results[k].data
        IN  /\ \A key \in RequiredFields :
                  key \in DOMAIN data /\ data[key] = RowCell(k, key)
            /\ ("participantEmail" \in DOMAIN data) <=> (RowCell(k, "participantEmail") # "")
            /\ ("certificateNumber" \in DOMAIN data) <=> (RowCell(k, "certificateNumber") # "")
            /\ "participantEmail" \in DOMAIN data
                  => data.participantEmail = RowCell(k, "participantEmail")
            /\ "certificateNumber" \in DOMAIN data
                  => data.certificateNumber = RowNumber(k)

\* C12: every row returned by validateImportRows has isValid = TRUE if and
\* only if its errors list is empty.
C12_ValidIffNoErrors ==
    \A k \in 1..Len(results) :
        results[k].isValid <=> (results[k].errors = <<>>)

\* A finished call that returned a valid row, a row rejected by validateRow
\* and a row rejected by the duplicate branch.
C12_Witness ==
    /\ vpc = "done"
    /\ \E k \in 1..Len(results) : results[k].isValid /\ results[k].errors = <<>>
    /\ \E k \in 1..Len(results) :
          ~results[k].isValid /\ results[k].errors = <<WithinFileError>>

(***************************************************************************)
(* Properties of ImportCertificatesModal, checked under SpecClient.        *)
(***************************************************************************)
\* The rows handed to handleGenerate are still in the preview table.
RowsStillAvailable ==
    \A k \in 1..Len(gen.toGenerate) :
        \E j \in 1..Len(modal.previewRows) :
            modal.previewRows[j].data = gen.toGenerate[k].data

\* C13: when handleGenerate finishes all chunks with failures > 0, the modal
\* ends in the preview step with the imported rows still available and the
\* failure reported, also when successes > 0, in which case the success is
\* reported too.
C13_FailuresLeaveRowsForRetry ==
    (gen.pc = "ended" /\ gen.failures > 0)
        => /\ modal.step = "preview"
           /\ RowsStillAvailable
           /\ "error" \in gen.toasts
           /\ gen.successes > 0 => "success" \in gen.toasts

\* The rows of the requests sent so far, in the order they were sent.
RECURSIVE Submitted(_)
Submitted(requests) ==
    IF Len(requests) = 0 THEN <<>>
    ELSE Submitted(SubSeq(requests, 1, Len(requests) - 1)) \o requests[Len(requests)]

Running == gen.pc \in {"loop", "await"}

\* C26: handleGenerate splits the n selected valid rows into ceil(n/5)
\* contiguous chunks in the original order, every chunk but the last of
\* exactly 5 rows, and submits every selected row in exactly one request,
\* whatever the earlier chunks were answered.
C26_EveryRowInExactlyOneChunk ==
    (Running \/ gen.pc = "ended") =>
        LET n == Len(gen.toGenerate)
            chunks == (n + 4) \div 5
            sent == Submitted(gen.requests)
        IN  /\ Len(gen.requests) <= chunks
            /\ Len(sent) <= n
            /\ sent = SubSeq(gen.toGenerate, 1, Len(sent))
            /\ \A j \in 1..Len(gen.requests) :
                  IF j < chunks THEN Len(gen.requests[j]) = 5
                  ELSE Len(gen.requests[j]) = n - 5 * (chunks - 1)
            /\ Running =>
                  n = Cardinality({ k \in 1..Len(modal.previewRows) :
                                      /\ modal.previewRows[k].isValid
                                      /\ modal.previewRows[k].index \in modal.selectedIndices })
            /\ gen.pc = "ended" => (Len(gen.requests) = chunks /\ sent = gen.toGenerate)

\* Eleven rows went out as two chunks of five, the first answered by a
\* network error, and a chunk of one.
C26_Witness ==
    /\ gen.pc = "ended"
    /\ Len(gen.toGenerate) = 11
    /\ Len(gen.requests) = 3
    /\ Len(gen.requests[1]) = 5
    /\ Len(gen.requests[2]) = 5
    /\ Len(gen.requests[3]) = 1
    /\ gen.allErrors # <<>>
    /\ gen.allErrors[1] = "Network error"

\* C27: during one run of handleGenerate at most one generate request is in
\* flight: the request of chunk i+1 is sent only after the response, or the
\* network error, of chunk i was received and folded into the counters.
C27_OneRequestInFlight ==
    /\ gen.inFlight \in {0, 1}
    /\ gen.inFlight = 1 <=> gen.pc = "await"
    /\ Len(gen.requests) = gen.i + gen.inFlight
    /\ gen.i = 0 => (gen.successes = 0 /\ gen.failures = 0)

\* The second chunk is in flight after the first was answered.
C27_Witness ==
    /\ gen.pc = "await"
    /\ gen.i = 1
    /\ Len(gen.requests) = 2
    /\ gen.inFlight = 1
    /\ gen.successes + gen.failures > 0

\* C30: when handleGenerate has finished all chunks, successes + failures
\* equals the number of selected rows it submitted, whatever mix of
\* successful responses, rejected responses and network errors it received.
C30_CountersAddUpToSubmittedRows ==
    (gen.pc = "ended" /\ Len(gen.toGenerate) > 0)
        => gen.successes + gen.failures = Len(gen.toGenerate)

(***************************************************************************)
(* Properties of POST /api/admin/certificates/generate, checked under      *)
(* SpecBatch.                                                              *)
(***************************************************************************)
Answered(c) == call[c].op = "generate" /\ call[c].pc = "done"

\* The call has made no existence check, render, upload or insertion.
NoWork(k) == k.checks = 0 /\ k.renders = 0 /\ k.uploads = 0 /\ k.inserts = 0

\* C1: in one batch generate call every row whose generation steps raise an
\* exception adds exactly one to failed and exactly one entry to the error
\* list; when exactly one of three valid rows fails to render, the response
\* has generated = 2, failed = 1 and one error entry.
C1_RaisedRowCountsOnce ==
    \A c \in Calls :
        call[c].op = "generate" =>
            /\ call[c].failed = call[c].raised + call[c].skipped
            /\ Len(call[c].errors) = call[c].raised + call[c].skipped
            /\ ( /\ call[c].pc = "done"
                 /\ call[c].response.success
                 /\ Len(call[c].validRows) = 3
                 /\ call[c].raised = 1
                 /\ call[c].skipped = 0
                 /\ call[c].lastRaise = "render" )
               => /\ call[c].response.generated = 2
                  /\ call[c].response.failed = 1
                  /\ Len(call[c].response.errors) = 1

C7_CallLevelErrorNoPartialWork ==
    \A c \in Calls :
        (Answered(c) /\ call[c].response.status \in {400, 404, 500})
            => /\ call[c].inserts = 0
               /\ call[c].uploads = 0
               /\ NoWork(call[c])

C14_RowFailureNeverAbortsCall ==
    \A c \in Calls :
        (Answered(c) /\ call[c].idx >= 1)
            => /\ call[c].response.success
               /\ call[c].idx = Len(call[c].validRows) + 1
               /\ call[c].generated + call[c].skipped + call[c].raised
                     = Len(call[c].validRows)
               /\ call[c].response.generated = call[c].generated

\* C17: every persisted certificate record, whether its number was generated
\* or supplied by a row, has an upper-case certificateNumber that matches
\* the pattern the verification endpoint accepts.
C17_PersistedNumbersMatchPattern ==
    \A d \in certificates :
        /\ d.certificateNumber = ToUpperCase(d.certificateNumber)
        /\ isValidCertificateNumber(d.certificateNumber)

\* C21: in a batch generate call, a row that supplies a certificateNumber
\* already present in the store (also one inserted by an earlier row of the
\* same call) is skipped: the existence check adds one to failed, appends the
\* one message "already exists; skipped." and moves to the next row without
\* a render, an upload or an insert.
C21_ExistingSuppliedNumberIsSkipped ==
    [][\A c \in Calls :
         ( /\ call[c].op = "generate"
           /\ call[c].pc = "checkSupplied"
           /\ call'[c] # call[c]
           /\ faults' = faults
           /\ \E d \in certificates : d.certificateNumber = call[c].certificateNumber )
         => /\ call'[c].failed = call[c].failed + 1
            /\ call'[c].errors =
                  Append(call[c].errors,
                         "Row \"" \o call[c].participantName \o "\": certificate "
                            \o call[c].certificateNumber \o " already exists; skipped.")
            /\ call'[c].generated = call[c].generated
            /\ call'[c].renders = call[c].renders
            /\ call'[c].uploads = call[c].uploads
            /\ call'[c].inserts = call[c].inserts
            /\ call'[c].pc = "row"
            /\ call'[c].idx = call[c].idx + 1
            /\ UNCHANGED <<certificates, storage>>]_vars

\* The second of two rows supplying the same number was skipped after the
\* first was inserted by the same call.
C21_Witness ==
    \E c \in Calls :
        /\ call[c].op = "generate"
        /\ call[c].inserts = 1
        /\ call[c].renders = 1
        /\ call[c].skipped = 1
        /\ call[c].failed = 1
        /\ call[c].errors = <<"Row \"Ravi\": certificate ECELL-2026-AAAAA already exists; skipped.">>
        /\ call[c].idx = 3

\* The steps of one row, in the order of the loop body.
StepsAfter(pc) ==
    CASE pc = "row"            -> {"checkSupplied", "generateNumber", "done"}
      [] pc = "checkSupplied"  -> {"qr"}
      [] pc = "generateNumber" -> {"generateNumber", "qr"}
      [] pc = "qr"             -> {"render"}
      [] pc = "render"         -> {"upload"}
      [] pc = "upload"         -> {"create"}
      [] OTHER                 -> {}

\* C23: within a batch generate call the steps of one row run in the order
\* number check, QR, render, upload, persist, each starting only after the
\* one before it succeeded, and the next row starts only when the current row
\* has finished; a record is persisted only after its PDF was uploaded.
C23_RowStepsInOrder ==
    /\ [](\A c \in Calls :
            call[c].op = "generate" =>
                /\ call[c].inserts <= call[c].uploads
                /\ call[c].uploads <= call[c].renders
                /\ call[c].renders <= call[c].checks
                /\ call[c].pc = "create"
                      => ("certificates/" \o call[c].certificateNumber \o ".pdf") \in storage)
    /\ [][\A c \in Calls :
            (call[c].op = "generate" /\ call[c].pc \notin {"idle", "findEvent", "done"}
                /\ call'[c] # call[c])
            => LET k == call[c]
                   n == call'[c]
               IN  \/ \* the step succeeded and the next step of the same row is due
                      /\ n.pc \in StepsAfter(k.pc)
                      /\ n.idx = k.idx
                      /\ faults' = faults
                      /\ n.failed = k.failed /\ n.generated = k.generated
                      /\ certificates' = certificates
                   \/ \* the row ended without a record
                      /\ k.pc # "row"
                      /\ n.pc = "row"
                      /\ n.idx = k.idx + 1
                      /\ n.failed > k.failed /\ n.generated = k.generated
                      /\ certificates' = certificates
                   \/ \* the row ended with its record, after the upload
                      /\ k.pc = "create"
                      /\ n.pc = "row"
                      /\ n.idx = k.idx + 1
                      /\ faults' = faults
                      /\ n.generated = k.generated + 1 /\ n.failed = k.failed
                      /\ \E d \in certificates' :
                            /\ certificates' = certificates \cup {d}
                            /\ d \notin certificates
                            /\ d.certificateNumber = k.certificateNumber
                            /\ d.cloudinaryPublicId \in storage
                   \/ \* the call was aborted
                      /\ n.pc = "done" /\ ~n.response.success]_vars

\* Two rows went through all their steps, one after the other.
C23_Witness ==
    \E c \in Calls :
        /\ call[c].op = "generate"
        /\ call[c].pc = "done"
        /\ call[c].inserts = 2
        /\ call[c].uploads = 2
        /\ call[c].renders = 3
        /\ call[c].raised = 1
        /\ call[c].lastRaise = "upload"

\* The row's isValid flag is false, or its participantName or eventName is
\* empty.
Rejected(r) ==
    \/ ~r.isValid
    \/ r.data.participantName \in {JUndef, JStr("")}
    \/ r.data.eventName \in {JUndef, JStr("")}

\* C25: a batch generate call never creates a certificate for a submitted row
\* whose isValid flag is false or whose participantName or eventName is
\* empty: such rows are filtered out before the loop and are counted neither
\* as generated nor as failed.
C25_RejectedRowsAreFilteredOut ==
    \A c \in Calls :
        call[c].op = "generate" =>
            LET k == call[c]
                kept == { j \in 1..Len(k.rows) : ~Rejected(k.rows[j]) }
            IN  /\ \A j \in 1..Len(k.validRows) : ~Rejected(k.validRows[j])
                /\ Len(k.validRows) = Cardinality(kept)
                /\ k.generated + k.skipped + k.raised <= Cardinality(kept)
                /\ k.idx <= Cardinality(kept) + 1
                /\ \A d \in certificates :
                      d.id[1] = c =>
                          /\ d.id[2] \in 1..Len(k.validRows)
                          /\ ~Rejected(k.validRows[d.id[2]])
                          /\ d.participantName
                                = Trim(k.validRows[d.id[2]].data.participantName.s)

\* A body of three rows, two of which the filter dropped, was answered with
\* one certificate and no failure.
C25_Witness ==
    \E c \in Calls :
        /\ Answered(c)
        /\ call[c].rows = <<RowInvalid, RowGenerated, RowEmptyName>>
        /\ call[c].response.success
        /\ call[c].response.generated = 1
        /\ call[c].response.failed = 0
        /\ Cardinality(certificates) = 1

\* C29: when a generate call has finished, every PDF it uploaded to the
\* storage service is referenced by a persisted certificate record: no PDF
\* is left in storage for a row whose persist step failed.
C29_UploadedArtifactsAreReferenced ==
    \A c \in Calls :
        Answered(c) =>
            \A publicId \in storage :
                \E d \in certificates : d.cloudinaryPublicId = publicId

(***************************************************************************)
(* Properties of the Certificate collection, checked under Spec.           *)
(***************************************************************************)
\* C6: whatever the interleaving of batch generate calls, single generate
\* calls and deletions, no two persisted certificate records have the same
\* certificateNumber.
C6_CertificateNumbersUnique ==
    \A d1 \in certificates : \A d2 \in certificates :
        d1.certificateNumber = d2.certificateNumber => d1 = d2

\* Two calls passed the existence check for the same number; the insert of
\* the second was rejected by the unique index.
C6_Witness ==
    \E c \in Calls : \E d \in certificates :
        /\ call[c].op = "generate"
        /\ call[c].checks > 0
        /\ call[c].uploads > 0
        /\ call[c].inserts = 0
        /\ call[c].errors # <<>>
        /\ call[c].errors[Len(call[c].errors)]
              = CaughtMessage(call[c].participantName, "E11000 duplicate key error")
        /\ d.certificateNumber = call[c].certificateNumber
        /\ d.id[1] # c

\* C15: an event is deleted only when it has no certificates, so that after
\* any interleaving of event deletions with batch or single generation every
\* persisted certificate's eventId refers to an event that still exists.
C15_CertificatesReferToExistingEvents ==
    \A d \in certificates : \E e \in events : e.id = d.eventId

\* C16: once a certificate record is created no operation changes its
\* certificateNumber, certificateUrl, storage handle, eventId or issuedAt:
\* from one state to the next every record is either unchanged or removed.
C16_RecordsChangeOnlyByRemoval ==
    [][\A d \in certificates :
          \/ d \in certificates'
          \/ ~\E e \in certificates' : e.id = d.id]_vars

\* A record that is still in the collection, unchanged, after a delete
\* request aimed at it has ended with an error.
C16_Witness ==
    \E d \in certificates : \E c \in Calls :
        /\ call[c].op = "delete"
        /\ call[c].target = d.id
        /\ call[c].pc = "done"
        /\ call[c].response.status = 500

\* C19: an admin route called without a valid admin token changes neither
\* events nor certificates nor stored artifacts and answers 401.
C19_UnauthorizedAnswers401 ==
    [][\A c \in Calls :
          (call[c].pc = "idle" /\ call'[c].op # "none" /\ ~call'[c].authed)
          => /\ call'[c].pc = "done"
             /\ call'[c].response.status = 401
             /\ UNCHANGED <<events, certificates, storage>>]_vars

\* C20: when the lookup of a well-formed certificate number is answered (the
\* database being available), it answers valid = TRUE exactly when a record
\* with that number is in the store, and the lookup changes no state.
C20_VerifyAnswersStoreMembership ==
    [][\A c \in Slots :
          (call[c].pc = "verifyFind" /\ call'[c].pc = "done" /\ faults' = faults)
          => /\ call'[c].response.valid
                  <=> findOne(certificates, ToUpperCase(call[c].certificateNumber))
             /\ UNCHANGED <<events, certificates, storage>>]_vars

\* The call is in the loop that draws candidate numbers, or past it.
Drawing(k) == k.op \in {"generate", "single"} /\ k.pc = "generateNumber"

InStore(store, certificateNumber) ==
    \E d \in store : d.certificateNumber = certificateNumber

\* C22: for a row without a supplied number the generator draws at most 10
\* candidates, checks each against the store and stops at the first one not
\* found; when all 10 collide the row is one failure and is skipped without
\* render, upload or insert (the single route answers an error), and no
\* generation goes on from a candidate that the check found in the store.
C22_AtMostTenCandidates ==
    /\ [](\A c \in Calls :
            /\ call[c].attempts <= 10
            /\ Drawing(call[c]) => call[c].attempts < 10)
    /\ [][\A c \in Calls :
            (Drawing(call[c]) /\ call'[c] # call[c] /\ faults' = faults)
            => LET k == call[c]
                   n == call'[c]
               IN  /\ n.attempts = k.attempts + 1
                   /\ n.checks = k.checks + 1
                   /\ UNCHANGED <<certificates, storage>>
                   /\ n.renders = k.renders /\ n.uploads = k.uploads /\ n.inserts = k.inserts
                   /\ IF ~InStore(certificates, n.certificateNumber)
                      THEN n.pc \in {"qr", "render"} /\ n.failed = k.failed
                      ELSE IF n.attempts < 10
                      THEN Drawing(n) /\ n.failed = k.failed /\ n.errors = k.errors
                      ELSE IF k.op = "generate"
                      THEN /\ n.pc = "row"
                           /\ n.idx = k.idx + 1
                           /\ n.failed = k.failed + 1
                           /\ Len(n.errors) = Len(k.errors) + 1
                           /\ n.generated = k.generated
                      ELSE /\ n.pc = "done"
                           /\ n.response.status = 500]_vars

\* All ten candidates of a row collided with a number in the store.
C22_Witness ==
    \E c \in Calls :
        /\ call[c].op = "generate"
        /\ call[c].attempts = 10
        /\ call[c].pc = "row"
        /\ call[c].failed = 1
        /\ call[c].errors = <<"Row \"Asha\": could not generate unique certificate number.">>
        /\ NoWork([call[c] EXCEPT !.checks = 0])
        /\ InStore(certificates, call[c].certificateNumber)

\* The one row failure of the call was the rejection of its insert by the
\* unique index (no external failure was injected).
LostInsert(k) ==
    /\ k.op = "generate"
    /\ k.raised = 1
    /\ k.skipped = 0
    /\ k.lastRaise = "create"
    /\ faults = 0

\* C24: when two concurrent generate calls both pass the existence check for
\* the same number before either inserts, exactly one insert succeeds; the
\* losing call counts the uniqueness violation as one row failure with one
\* error entry, as for an explicit collision, is not aborted and goes on.
C24_LosingInsertIsOneRowFailure ==
    \A c \in Calls :
        LostInsert(call[c])
            => /\ Cardinality({ d \in certificates :
                                  d.certificateNumber = call[c].certificateNumber }) = 1
               /\ call[c].failed = 1
               /\ Len(call[c].errors) = 1
               /\ call[c].pc = "done" => call[c].response.success

\* C28: the single delete and each id of a bulk delete attempt to delete the
\* stored artifact before the database record, and when the deletion of the
\* artifact fails they still delete the record and report that deletion as
\* successful.
C28_RecordDeletedAfterArtifactAttempt ==
    [][\A c \in Calls :
         LET k == call[c]
             n == call'[c]
         IN  /\ (k.pc \in {"deletePDF", "bulkPDF"} /\ n # k)
                   => /\ n.pc = IF k.pc = "deletePDF" THEN "deleteRecord" ELSE "bulkRemove"
                      /\ certificates' = certificates
                      /\ faults' = faults => k.publicId \notin storage'
             /\ (n.pc \in {"deleteRecord", "bulkRemove"} /\ k.pc # n.pc)
                   => k.pc \in {"deletePDF", "bulkPDF"}
             /\ (k.pc \in {"deleteRecord", "bulkRemove"} /\ n # k /\ faults' = faults)
                   => /\ ~\E d \in certificates' : d.id = k.target
                      /\ k.op = "delete" => (n.pc = "done" /\ n.response.success)
                      /\ k.op = "bulkDelete"
                            => (n.deleted = k.deleted + 1 /\ n.failed = k.failed)]_vars

\* A single delete answered success and removed the record although the
\* deletion of the PDF failed: the PDF is still in storage.
C28_Witness ==
    \E c \in Calls :
        /\ call[c].op = "delete"
        /\ call[c].pc = "done"
        /\ call[c].response.success
        /\ faults = 1
        /\ call[c].publicId \in storage
        /\ ~\E d \in certificates : d.id = call[c].target

(***************************************************************************)
(* Properties of generateCertificateNumber, checked under SpecNumber.      *)
(***************************************************************************)
\* C18: every value returned by generateCertificateNumber is accepted by
\* isValidCertificateNumber and its year component is the current year.
C18_GeneratedNumberIsValid ==
    numberCall.pc = "returned"
        => /\ isValidCertificateNumber(numberCall.certificateNumber)
           /\ SubSeq(numberCall.certificateNumber, 7, 10) = ToString(numberCall.year)

C18_Witness ==
    /\ numberCall.pc = "returned"
    /\ numberCall.year = 2026
    /\ numberCall.certificateNumber = "ECELL-2026-AZ09A"

====
